---------------------------- MODULE Spec2Model ----------------------------
(***************************************************************************)
(* A model of kollider-hedge: the rate algebra of ChannelHedge::with_htlc, *)
(* the update log and its replay, the exposure ledger (State), the         *)
(* decision engine and the action worker.                                  *)
(*                                                                         *)
(* Integer widths.  The program computes in i64, u64 and i128.  The model  *)
(* keeps the same structure at a reduced width: Sats (i64) has I64Bits     *)
(* bits, u64 has I64Bits bits, and the wide type (i128) has twice that.    *)
(* Every `+` and `*` the program performs in a fixed width is modelled     *)
(* with its overflow: with overflow checks compiled in (debug profile) it  *)
(* panics, without them (release profile) it wraps.  `as` casts always     *)
(* truncate.  The variable overflow_checks is the build profile.           *)
(***************************************************************************)
EXTENDS Integers, Sequences, FiniteSets, TLC

(***************************************************************************)
(* Bounds of the model                                                     *)
(***************************************************************************)
\* width of the model's i64/u64; the wide type (i128) has 2 * I64Bits bits
I64Bits == 8
\* the algebra's inputs are taken within AlgSpan of 0, of i64::MIN and of i64::MAX
AlgSpan == 3
\* rows the `updates` table holds at most
MaxLog == 3
\* POST /hedge/htlc requests the service receives at most
MaxPosts == 2
\* orders the worker creates at most
MaxOrders == 3
\* requests the HTTP server handles at once, at most
MaxHandlers == 2
\* generations of tasks main's Serve loop starts at most
MaxGenerations == 2

(***************************************************************************)
(* Fixed-width integers                                                    *)
(***************************************************************************)
Pow2(n) == 2 ^ n

I64Min == -Pow2(I64Bits - 1)
I64Max == Pow2(I64Bits - 1) - 1
I64 == I64Min .. I64Max
U64Max == Pow2(I64Bits) - 1
U64 == 0 .. U64Max
I128Min == -Pow2(2 * I64Bits - 1)
I128Max == Pow2(2 * I64Bits - 1) - 1
I128 == I128Min .. I128Max

\* two's-complement truncation to a signed integer of `bits` bits
WrapSigned(x, bits) == ((x + Pow2(bits - 1)) % Pow2(bits)) - Pow2(bits - 1)
\* `x as i64`
AsI64(x) == WrapSigned(x, I64Bits)
\* the value a wrapping i128 operation yields
WrapI128(x) == WrapSigned(x, 2 * I64Bits)
\* `x as u64`
AsU64(x) == x % Pow2(I64Bits)

Abs(x) == IF x < 0 THEN -x ELSE x

\* Rust's `/` on integers truncates toward zero (b # 0)
TruncDiv(a, b) ==
    LET q == Abs(a) \div Abs(b)
    IN IF (a < 0) # (b < 0) THEN -q ELSE q

(***************************************************************************)
(* State                                                                   *)
(***************************************************************************)
VARIABLES
    overflow_checks,   \* build profile: TRUE = arithmetic overflow panics, FALSE = wraps
    hedge,             \* algebra: the existing exposure (self)
    upd,               \* algebra: the update folded into it (htlc)
    new_hedge,         \* algebra: the result of hedge.with_htlc(upd), NoResult before the call
    log,               \* the `updates` table: rows in insertion order
    replay,            \* the result of query_state at boot, NotReplayed before it
    state,             \* the ledger behind state_mx
    lock,              \* the holder of state_mx: "free", "http", "worker"
    permit,            \* state_notify holds a stored permit
    worker,            \* state_action_worker: its position, the cloned actions, the next one
    http,              \* the hedge_htlc handlers in flight: of each its position, the update, the last response
    submitted,         \* the actions execute_action has accepted, in order
    next_id,           \* the next id OpeningOrder::new_id draws
    requests,          \* the number of POST /hedge/htlc received
    sup,               \* main's Serve loop: its position, the generation, the session and the server
    ledger,            \* engine: the ledger a function of State is applied to
    outcome            \* engine: the function applied, its argument and its result

alg_vars == <<hedge, upd, new_hedge>>
db_vars == <<log, replay>>
sys_vars == <<state, lock, permit, worker, http, submitted, next_id, requests, sup>>
eng_vars == <<ledger, outcome>>
vars == <<overflow_checks, hedge, upd, new_hedge, log, replay,
          state, lock, permit, worker, http, submitted, next_id, requests, sup,
          ledger, outcome>>

(***************************************************************************)
(* Rate algebra (update.rs)                                                *)
(***************************************************************************)
ChannelHedge(s, r) == [sats |-> s, rate |-> r]

\* Result<ChannelHedge, HtlcUpdateErr>, plus the panic of an overflowing operation
Ok(s, r) == [kind |-> "Ok", sats |-> s, rate |-> r]
Err(k) == [kind |-> k, sats |-> 0, rate |-> 0]
Panic == [kind |-> "Panic", sats |-> 0, rate |-> 0]
NoResult == [kind |-> "None", sats |-> 0, rate |-> 0]

HtlcUpdateErr == {"InsufficientSatsBalance", "InsufficientFiatBalance", "RateOverflow"}

\* with_htlc keeping the rate of self
with_htlc_keeping_rate(self, htlc) ==
    IF self.sats + htlc.sats < 0 THEN Err("InsufficientSatsBalance")
    ELSE Ok(AsI64(self.sats + htlc.sats), self.rate)

with_htlc(self, htlc) ==
    LET sum64 == self.sats + htlc.sats          \* i64 addition of the first check
    IN
    IF sum64 \notin I64 /\ overflow_checks THEN Panic
    ELSE IF AsI64(sum64) < 0 THEN Err("InsufficientSatsBalance")
    ELSE
    LET sats0 == self.sats
        sats1 == htlc.sats
        rate0 == self.rate
        rate1 == htlc.rate
        sats == sats0 + sats1                   \* i128: two i64 never overflow it
        ws == sats0 * rate1 + sats1 * rate0     \* i128: each product fits, the sum may not
        weighted_sum == WrapI128(ws)
    IN
    IF ws \notin I128 /\ overflow_checks THEN Panic
    ELSE IF weighted_sum <= 0 THEN Err("InsufficientFiatBalance")
    ELSE
    LET m1 == sats * rate0                      \* i128 multiplication
        m2 == WrapI128(m1) * rate1              \* i128 multiplication
        rate == TruncDiv(WrapI128(m2), weighted_sum)
    IN
    IF (m1 \notin I128 \/ m2 \notin I128) /\ overflow_checks THEN Panic
    ELSE IF rate > I64Max THEN Err("RateOverflow")
    ELSE Ok(AsI64(sats), AsI64(rate))

\* ChannelHedge::combine
combine(self, other) == with_htlc(self, ChannelHedge(other.sats, other.rate))

(***************************************************************************)
(* The exposure ledger (state.rs) and the update log (update.rs, queries.rs) *)
(***************************************************************************)
\* Option<T>: None is the empty tuple, Some(x) the 1-tuple of x
None == <<>>
Some(x) == <<x>>
IsSome(o) == Len(o) = 1
Unwrap(o) == o[1]

\* HashMap: a function whose domain is the set of keys
EmptyMap == [k \in {} |-> 0]
Insert(m, k, v) == [c \in DOMAIN m \cup {k} |-> IF c = k THEN v ELSE m[c]]
Remove(m, k) == [c \in DOMAIN m \ {k} |-> m[c]]

\* HedgeConfig::default(); spread_percent is kept in hundredths of a percent
DefaultSpreadBp == 10
DefaultLeverage == 100
DefaultConfig ==
    [hedge_pair |-> ".BTCUSD", hedge_sym |-> "BTCUSD.PERP",
     spread_bp |-> DefaultSpreadBp, hedge_leverage |-> DefaultLeverage]

\* State::new(config), created at time `now`
StateNew(config, now) ==
    [last_changed |-> now,
     config |-> config,
     balance |-> None,
     ticker |-> None,
     channels_hedge |-> EmptyMap,
     opened_orders |-> None,
     opened_position |-> None,
     scheduled_actions |-> <<>>,
     opening_orders |-> EmptyMap]

\* UpdateBody and StateUpdate
HtlcUpdate(c, s, r) == [channel_id |-> c, sats |-> s, rate |-> r]
Htlc(h) == [tag |-> "htlc", htlc |-> h, channels_hedge |-> EmptyMap]
Snapshot(m) == [tag |-> "snapshot", htlc |-> HtlcUpdate("", 0, 0), channels_hedge |-> m]
StateUpdate(created, body) == [created |-> created, body |-> body]

\* Result<State, StateUpdateErr>, plus the panic of an overflowing operation
StateOk(st) == [kind |-> "Ok", state |-> st]
StateErr(k, st) == [kind |-> k, state |-> st]

\* State::with_htlc: Ok(new state) or the error of ChannelHedge::with_htlc;
\* on an error `?` returns before the map is touched
state_with_htlc(st, htlc) ==
    LET chan_id == htlc.channel_id
        known == chan_id \in DOMAIN st.channels_hedge
        res == IF known
               THEN with_htlc(st.channels_hedge[chan_id], htlc)
               ELSE Ok(htlc.sats, htlc.rate)
    IN IF res.kind = "Ok"
       THEN StateOk([st EXCEPT !.channels_hedge =
                        Insert(st.channels_hedge, chan_id, ChannelHedge(res.sats, res.rate))])
       ELSE StateErr(res.kind, st)

\* (mutant) a snapshot merged into the channels the ledger holds
apply_update_merging(st, update) ==
    IF update.body.tag = "htlc"
    THEN LET res == state_with_htlc(st, update.body.htlc)
         IN IF res.kind = "Ok"
            THEN StateOk([res.state EXCEPT !.last_changed = update.created])
            ELSE res
    ELSE StateOk([st EXCEPT !.channels_hedge = update.body.channels_hedge @@ @,
                            !.last_changed = update.created])

\* (mutant) apply_update stamping the ledger before the HTLC is folded
apply_update_stamping(st, update) ==
    IF update.body.tag = "htlc"
    THEN LET res == state_with_htlc(st, update.body.htlc)
         IN [res EXCEPT !.state.last_changed = update.created]
    ELSE StateOk([st EXCEPT !.channels_hedge = update.body.channels_hedge,
                            !.last_changed = update.created])

\* State::apply_update
apply_update(st, update) ==
    IF update.body.tag = "htlc"
    THEN LET res == state_with_htlc(st, update.body.htlc)
         IN IF res.kind = "Ok"
            THEN StateOk([res.state EXCEPT !.last_changed = update.created])
            ELSE res
    ELSE StateOk([st EXCEPT !.channels_hedge = update.body.channels_hedge,
                            !.last_changed = update.created])

\* State::collect: fold the updates, earliest first, from State::new; the
\* first failing update ends the fold with its error
RECURSIVE collect_from(_, _, _)
collect_from(st, updates, i) ==
    IF i > Len(updates) THEN StateOk(st)
    ELSE LET res == apply_update(st, updates[i])
         IN IF res.kind = "Ok" THEN collect_from(res.state, updates, i + 1) ELSE res

collect(config, updates, now) == collect_from(StateNew(config, now), updates, 1)

Reverse(seq) == [i \in 1 .. Len(seq) |-> seq[Len(seq) + 1 - i]]

\* "select * from updates order by created desc": rows are stamped by
\* insert_update with the time of insertion, which grows with every insertion
rows_desc(table) == Reverse(table)

\* (mutant) the scan stops before the snapshot instead of after it
RECURSIVE scan_rows_exclusive(_, _, _)
scan_rows_exclusive(rows, i, parsed) ==
    IF i > Len(rows) THEN parsed
    ELSE IF rows[i].body.tag = "snapshot" THEN parsed
    ELSE scan_rows_exclusive(rows, i + 1, Append(parsed, rows[i]))

\* query_updates: read the rows newest first, keep each, stop after a snapshot
RECURSIVE scan_rows(_, _, _)
scan_rows(rows, i, parsed) ==
    IF i > Len(rows) THEN parsed
    ELSE LET item == rows[i]
             is_end == item.body.tag = "snapshot"
         IN IF is_end THEN Append(parsed, item)
            ELSE scan_rows(rows, i + 1, Append(parsed, item))

query_updates(table) == scan_rows(rows_desc(table), 1, <<>>)

\* query_state: State::collect(updates.into_iter().rev())
query_state(table, config, now) == collect(config, Reverse(query_updates(table)), now)

NotReplayed == [kind |-> "None", state |-> StateNew(DefaultConfig, 0)]

\* insert_update: the row is stamped with the time of the insertion
insert_update(table, body) == Append(table, StateUpdate(Len(table) + 1, body))

(***************************************************************************)
(* Orders, actions and the derived queries of the ledger (state.rs)        *)
(*                                                                         *)
(* f64 values (ticker, spread_percent, the margin) are modelled as exact   *)
(* rationals: the rounding error of the floating-point operations is not   *)
(* modelled.  Prices, which the program derives from the constant 10^8,    *)
(* keep their natural magnitude; amounts of sats have the model's width.   *)
(***************************************************************************)
SatsPerBtc == 100000000

Bid == "Bid"
Ask == "Ask"
\* OrderSide::inverse
inverse(side) == IF side = Bid THEN Ask ELSE Bid

KolliderOrder(id, ext_id, leverage, price, quantity, side) ==
    [id |-> id, ext_id |-> ext_id, leverage |-> leverage, price |-> price,
     quantity |-> quantity, side |-> side]

OpeningOrder(ext_id, symbol, sats, price, side, leverage) ==
    [ext_id |-> ext_id, symbol |-> symbol, sats |-> sats, price |-> price,
     side |-> side, leverage |-> leverage]

\* StateAction::OpenOrder; calculate_next_actions builds no CloseOrder
OpenOrder(order) == [type |-> "OpenOrder", order |-> order]

\* StateAction::CloseOrder
CloseOrder(order_id, symbol) == [type |-> "CloseOrder", order_id |-> order_id, symbol |-> symbol]

\* round(), for a non-negative rational num / den: half away from zero
RoundDiv(num, den) == (2 * num + den) \div (2 * den)
CeilDiv(num, den) == (num + den - 1) \div den

\* (a * b) div d and (a * b) mod d for a, b >= 0 and d > 0, by doubling, so
\* that no intermediate value exceeds 2 * d + a
RECURSIVE MulDivMod(_, _, _)
MulDivMod(a, b, d) ==
    IF b = 0 THEN [q |-> 0, r |-> 0]
    ELSE LET half == MulDivMod(a, b \div 2, d)
             r2 == 2 * half.r
             q2 == 2 * half.q + (r2 \div d)
             r3 == (r2 % d) + (IF b % 2 = 1 THEN a % d ELSE 0)
         IN [q |-> q2 + (IF b % 2 = 1 THEN a \div d ELSE 0) + (r3 \div d), r |-> r3 % d]

\* required_margin rounding down instead of up
required_margin_floor(o) ==
    MulDivMod(10 * SatsPerBtc, 100 * o.quantity, o.price).q \div o.leverage

\* KolliderOrder::required_margin:
\*   ceil(quantity * (10^8 / (price / 10)) / (leverage / 100))
\* = ceil(ceil(quantity * 10^11 / price) / leverage)
required_margin(o) ==
    LET byprice == MulDivMod(10 * SatsPerBtc, 100 * o.quantity, o.price)
    IN CeilDiv(byprice.q + (IF byprice.r > 0 THEN 1 ELSE 0), o.leverage)

\* the sum of a sequence of u64, as the mathematical integer
RECURSIVE SumSeq(_)
SumSeq(seq) == IF seq = <<>> THEN 0 ELSE Head(seq) + SumSeq(Tail(seq))

RECURSIVE SumOver(_, _)
SumOver(m, keys) ==
    IF keys = {} THEN 0
    ELSE LET k == CHOOSE x \in keys : TRUE IN m[k] + SumOver(m, keys \ {k})
\* the sum of a map's values
SumMap(m) == SumOver(m, DOMAIN m)

\* State::hedge_capacity: the u64 sum of `sats as u64`, before any overflow
hedge_capacity(st) == SumMap([c \in DOMAIN st.channels_hedge |-> AsU64(st.channels_hedge[c].sats)])

\* State::current_price: (10^8 / ticker).round(), None without a ticker
current_price_of(ticker) == RoundDiv(SatsPerBtc, ticker)
\* current_price assuming a price when there is no ticker
current_price_assumed(st) ==
    IF IsSome(st.ticker) THEN Some(current_price_of(Unwrap(st.ticker))) ELSE Some(3)

current_price(st) ==
    IF IsSome(st.ticker) THEN Some(current_price_of(Unwrap(st.ticker))) ELSE None

MarginsOf(orders, side) ==
    LET OnSide(o) == o.side = side
        sel == SelectSeq(orders, OnSide)
    IN SumSeq([i \in 1 .. Len(sel) |-> required_margin(sel[i])])

\* short_orders summing the margins of the Bid orders
short_orders_of_bids(st) ==
    IF IsSome(st.opened_orders) THEN Some(MarginsOf(Unwrap(st.opened_orders), Bid)) ELSE None

\* State::short_orders / long_orders: margins of the Ask / Bid orders
short_orders(st) ==
    IF IsSome(st.opened_orders) THEN Some(MarginsOf(Unwrap(st.opened_orders), Ask)) ELSE None
long_orders(st) ==
    IF IsSome(st.opened_orders) THEN Some(MarginsOf(Unwrap(st.opened_orders), Bid)) ELSE None

\* StateAction::is_short_order / is_long_order / order_sats
is_short_order(a) == a.type = "OpenOrder" /\ a.order.side = Bid
is_long_order(a) == a.type = "OpenOrder" /\ a.order.side = Ask

\* .filter_map(|a| a.order_sats()).sum() over the selected actions
ScheduledSats(sel) == SumSeq([i \in 1 .. Len(sel) |-> sel[i].order.sats])
\* State::scheduled_shorts / scheduled_longs
scheduled_shorts(st) == ScheduledSats(SelectSeq(st.scheduled_actions, is_short_order))
scheduled_longs(st) == ScheduledSats(SelectSeq(st.scheduled_actions, is_long_order))

OpeningSats(st, side) ==
    LET keys == {k \in DOMAIN st.opening_orders : st.opening_orders[k].side = side}
    IN SumOver([k \in keys |-> st.opening_orders[k].sats], keys)
\* opening_shorts overlooking the orders in flight
opening_shorts_overlooked(st) == 0

\* State::opening_shorts / opening_longs
opening_shorts(st) == OpeningSats(st, Bid)
opening_longs(st) == OpeningSats(st, Ask)

\* State::position_volume
position_volume(st) ==
    IF IsSome(st.opened_position) THEN Unwrap(st.opened_position).entry_value ELSE 0

\* State::position_quantity
position_quantity(st) ==
    IF IsSome(st.opened_position) THEN Unwrap(st.opened_position).quantity ELSE 0

\* the orders in which a HashMap may yield its keys
IterOrders(m) ==
    {o \in [1 .. Cardinality(DOMAIN m) -> DOMAIN m] : \A i, j \in DOMAIN o : o[i] = o[j] => i = j}

\* State::total_hedge: try_fold of combine from ChannelHedge {sats: 0, rate: 1}
\* over the channels in the order the map yields them
RECURSIVE fold_hedge(_, _, _, _)
fold_hedge(m, order, i, acc) ==
    IF i > Len(order) THEN acc
    ELSE LET res == combine(acc, m[order[i]])
         IN IF res.kind = "Ok" THEN fold_hedge(m, order, i + 1, res) ELSE res

total_hedge(st, order) == fold_hedge(st.channels_hedge, order, 1, Ok(0, 1))

\* State::hedge_avg_price: the error of total_hedge, a panic when the
\* assertion on the total rate fails, else the rate as u64 (in the field rate)
hedge_avg_price(st, order) ==
    LET final_hedge == total_hedge(st, order)
    IN IF final_hedge.kind # "Ok" THEN final_hedge
       ELSE IF ~(final_hedge.rate > 0) THEN Panic
       ELSE Ok(0, AsU64(final_hedge.rate))

\* an f64 quotient, kept as the fraction num / den
Fraction(num, den) == [num |-> num, den |-> den]
\* safe_divide of query_stats
safe_divide(numerator, denominator) ==
    IF denominator = 0 THEN Fraction(0, 1) ELSE Fraction(numerator, denominator)

\* Stats, with the outcome of the handler: "Ok" or "Panic"
Stats(kind, channels_sats, channels_usd, position_sats, position_usd, account_balance) ==
    [kind |-> kind, channels_sats |-> channels_sats, channels_usd |-> channels_usd,
     position_sats |-> position_sats, position_usd |-> position_usd,
     account_balance |-> account_balance]
\* Stats::new
StatsNew == Stats("None", 0, Fraction(0, 1), 0, 0, 0)
StatsPanic == Stats("Panic", 0, Fraction(0, 1), 0, 0, 0)

\* query_stats, the map yielding its channels in `order`
query_stats(st, order) ==
    LET cap == hedge_capacity(st)
        avg == hedge_avg_price(st, order)
        channel_sats == AsU64(cap)
        avg_price == IF avg.kind = "Ok" THEN avg.rate ELSE 0
    IN IF cap \notin U64 /\ overflow_checks THEN StatsPanic
       ELSE IF avg.kind = "Panic" THEN StatsPanic
       ELSE Stats("Ok", channel_sats, safe_divide(channel_sats, avg_price),
                  position_volume(st), position_quantity(st),
                  IF IsSome(st.balance) THEN Unwrap(st.balance) ELSE 0)

\* How much USD we can have unhedged or overhedged
ALLOWED_POSITION_GAP == 1

\* a tolerance band of no USD at all
position_gap_none(cur_price) == 0 * AsI64(cur_price)

\* ALLOWED_POSITION_GAP * cur_price as i64, before any overflow
position_gap(cur_price) == ALLOWED_POSITION_GAP * AsI64(cur_price)

\* (cur_price * (1 +- 0.01 * spread_percent)).round()
short_price(cur_price, spread_bp) == RoundDiv(cur_price * (10000 + spread_bp), 10000)
long_price(cur_price, spread_bp) == RoundDiv(cur_price * (10000 - spread_bp), 10000)

\* finalize_action forgetting the order it was given
finalize_action_forget(st, action) == st

\* add_opening_order dropping the order
add_opening_order_dropped(st, order) == st

\* State::add_opening_order and State::finalize_action
add_opening_order(st, order) ==
    [st EXCEPT !.opening_orders = Insert(st.opening_orders, order.ext_id, order)]
finalize_action(st, action) ==
    IF action.type = "OpenOrder" THEN add_opening_order(st, action.order) ELSE st

\* set_order_opened keeping the side of the opening intent
set_order_opened_same_side(st, order) ==
    LET st1 == [st EXCEPT !.opening_orders = Remove(st.opening_orders, order.ext_id)]
    IN IF IsSome(st1.opened_orders)
       THEN [st1 EXCEPT !.opened_orders = Some(Append(Unwrap(st1.opened_orders), order))]
       ELSE [st1 EXCEPT !.opened_orders = Some(<<order>>)]

\* State::set_order_opened
set_order_opened(st, order) ==
    LET inv == [order EXCEPT !.side = inverse(order.side)]
        st1 == [st EXCEPT !.opening_orders = Remove(st.opening_orders, order.ext_id)]
    IN IF IsSome(st1.opened_orders)
       THEN [st1 EXCEPT !.opened_orders = Some(Append(Unwrap(st1.opened_orders), inv))]
       ELSE [st1 EXCEPT !.opened_orders = Some(<<inv>>)]

\* the position stored when the Positions frame has none for hedge_sym
KolliderPosition(entry_value, quantity) ==
    [liquidation_price |-> 0, leverage |-> 100, entry_value |-> entry_value,
     entry_price |-> 0, quantity |-> quantity, rpnl |-> 0]

\* the frames of the exchange session that the ledger reads
MsgOpenOrders(open_orders) == [type |-> "OpenOrders", open_orders |-> open_orders]
MsgPositions(positions) == [type |-> "Positions", positions |-> positions]
MsgOpen(symbol, order) == [type |-> "Open", symbol |-> symbol, order |-> order]
MsgBalances(cash) == [type |-> "Balances", cash |-> cash]
MsgIndexValues(symbol, value) == [type |-> "IndexValues", symbol |-> symbol, value |-> value]
MsgReceived(order) == [type |-> "Received", order |-> order]
MsgOther == [type |-> "Other"]

Applied(changed, st) == [changed |-> changed, state |-> st]

\* State::apply_kollider_message: the new ledger and whether it reports a
\* modification
apply_kollider_message(st, msg) ==
    CASE msg.type = "OpenOrders" ->
           IF st.config.hedge_sym \in DOMAIN msg.open_orders
           THEN Applied(TRUE, [st EXCEPT !.opened_orders = Some(msg.open_orders[st.config.hedge_sym])])
           ELSE Applied(FALSE, [st EXCEPT !.opened_orders = Some(<<>>)])
      [] msg.type = "Positions" ->
           IF st.config.hedge_sym \in DOMAIN msg.positions
           THEN Applied(TRUE, [st EXCEPT !.opened_position = Some(msg.positions[st.config.hedge_sym])])
           ELSE Applied(TRUE, [st EXCEPT !.opened_position = Some(KolliderPosition(0, 0))])
      [] msg.type = "Open" /\ msg.symbol = st.config.hedge_sym ->
           IF IsSome(st.opened_orders)
           THEN Applied(TRUE, [st EXCEPT !.opened_orders = Some(Append(Unwrap(st.opened_orders), msg.order))])
           ELSE Applied(TRUE, [st EXCEPT !.opened_orders = Some(<<msg.order>>)])
      [] msg.type = "Balances" -> Applied(TRUE, [st EXCEPT !.balance = Some(msg.cash)])
      [] msg.type = "IndexValues" /\ msg.symbol = st.config.hedge_pair ->
           Applied(TRUE, [st EXCEPT !.ticker = Some(msg.value)])
      [] msg.type = "Received" /\ msg.order.ext_id \in DOMAIN st.opening_orders ->
           Applied(TRUE, set_order_opened(st,
               [msg.order EXCEPT !.side = st.opening_orders[msg.order.ext_id].side]))
      [] OTHER -> Applied(FALSE, st)

StatePanic(st) == [kind |-> "Panic", state |-> st]
\* the panic of a failed assert!
StateAssertFailed(st) == [kind |-> "AssertionFailed", state |-> st]

\* State::calculate_next_actions, with the id that OpeningOrder::new_id
\* draws.  Sums of u64 and the i64 arithmetic panic on overflow in a build
\* with overflow checks and wrap otherwise; the two assert! panic always (kind "AssertionFailed").
calculate_next_actions(st, new_id) ==
    LET so == short_orders(st)
        lo == long_orders(st)
        cp == current_price(st)
        sums == IF IsSome(so) THEN {Unwrap(so), Unwrap(lo)} ELSE {}
    IN
    IF (\E x \in sums : x \notin U64) /\ overflow_checks THEN StatePanic(st)
    ELSE IF ~(IsSome(so) /\ IsSome(lo) /\ IsSome(cp)) THEN StateOk(st)
    ELSE
    LET cur_price == Unwrap(cp)
        caps == {hedge_capacity(st), scheduled_shorts(st), scheduled_longs(st),
                 opening_shorts(st), opening_longs(st)}
        hcap == AsI64(hedge_capacity(st))
        pos_volume == AsI64(position_volume(st))
        ps1 == pos_volume + AsI64(Unwrap(so))
        ps2 == AsI64(ps1) + AsI64(scheduled_shorts(st))
        ps3 == AsI64(ps2) + AsI64(opening_shorts(st))
        pos_short == AsI64(ps3)
        pl1 == pos_volume - AsI64(Unwrap(lo))
        pl2 == AsI64(pl1) - AsI64(scheduled_longs(st))
        pl3 == AsI64(pl2) - AsI64(opening_longs(st))
        pos_long == AsI64(pl3)
        gap0 == position_gap(cur_price)
        gap == AsI64(gap0)
        above == pos_short + gap
        below == pos_long - gap
        Push(sats, price, side) ==
            StateOk([st EXCEPT !.scheduled_actions = Append(@,
                OpenOrder(OpeningOrder(new_id, st.config.hedge_sym, AsU64(sats), price,
                                       side, st.config.hedge_leverage)))])
    IN
    IF ((\E x \in caps : x \notin U64) \/ (\E x \in {ps1, ps2, ps3, pl1, pl2, pl3, gap0, above} : x \notin I64))
       /\ overflow_checks THEN StatePanic(st)
    ELSE IF hcap > AsI64(above) THEN
        IF ~(pos_short <= hcap) THEN StateAssertFailed(st)
        ELSE IF (hcap - pos_short) \notin I64 /\ overflow_checks THEN StatePanic(st)
        ELSE Push(hcap - pos_short, short_price(cur_price, st.config.spread_bp), Bid)
    ELSE IF below \notin I64 /\ overflow_checks THEN StatePanic(st)
    ELSE IF hcap < AsI64(below) THEN
        IF ~(hcap <= pos_long) THEN StateAssertFailed(st)
        ELSE IF (pos_long - hcap) \notin I64 /\ overflow_checks THEN StatePanic(st)
        ELSE Push(pos_long - hcap, long_price(cur_price, st.config.spread_bp), Ask)
    ELSE StateOk(st)

(***************************************************************************)
(* The frames sent to the exchange (state.rs)                              *)
(***************************************************************************)
\* KolliderMsg::Order and KolliderMsg::CancelOrder
OrderFrame(price, quantity, symbol, leverage, side, ext_order_id) ==
    [type |-> "Order", price |-> price, quantity |-> quantity, symbol |-> symbol,
     leverage |-> leverage, side |-> side, margin_type |-> "Isolated",
     order_type |-> "Limit", settlement_type |-> "Delayed", ext_order_id |-> ext_order_id]
CancelOrderFrame(order_id, symbol) ==
    [type |-> "CancelOrder", order_id |-> order_id, symbol |-> symbol,
     settlement_type |-> "Delayed"]

\* Vec<KolliderMsg>, or the panic of a division by zero
Frames(frames) == [kind |-> "Ok", frames |-> frames]
FramesPanic == [kind |-> "Panic", frames |-> <<>>]

\* StateAction::to_kollider_messages: `10 * 100_000_000 / price` is a
\* division of u64 and panics when price is 0; the quantity is the ceiling
\* of the f64 quotient
to_kollider_messages(action) ==
    IF action.type = "OpenOrder"
    THEN LET o == action.order
         IN IF o.price = 0 THEN FramesPanic
            ELSE LET usd_price == (10 * SatsPerBtc) \div o.price
                     quantity == CeilDiv(o.sats, o.price)
                 IN Frames(<<OrderFrame(usd_price, quantity, o.symbol, o.leverage,
                                        inverse(o.side), o.ext_id)>>)
    ELSE Frames(<<CancelOrderFrame(action.order_id, action.symbol)>>)

(***************************************************************************)
(* The processes: the hedge_htlc handler (api.rs), the action worker       *)
(* (state.rs) and the listener of the exchange session (main.rs).  Each    *)
(* step is the code between two awaits; state_mx is held across them as    *)
(* the code holds it.                                                      *)
(***************************************************************************)
WorkerAt(pc) == [pc |-> pc, actions |-> <<>>, i |-> 1]

\* (mutant) a notification that stores no permit
notify_one_lost(stored) == stored

\* Notify::notify_one with no task waiting: the permit is stored, and a
\* permit already stored absorbs the notification
notify_one(stored) == TRUE

\* a guard that does not keep the others out
held_by_nobody(task) == "free"

\* state_mx.lock().await: the guard is held by the task until it is dropped
held_by(task) == task

\* the reply of a handler: the status code and the message of the body
Reply(code, message) == [code |-> code, message |-> message]
NoReply == Reply(0, "")
\* Ok(Json::from(()))
ReplyOk == Reply(200, "")
\* a panic unwinds the handler's task: the connection is closed without a reply
ReplyPanic == Reply(0, "connection closed")
\* the rejection of a failed insert_update
DbError == "DbError"

\* handle_rejection, for the rejections hedge_htlc raises: a StateUpdateErr,
\* a queries::Error, anything else
handle_rejection(err) ==
    IF err \in HtlcUpdateErr THEN Reply(400, "STATE_UPDATE_ERROR")
    ELSE IF err = DbError THEN Reply(400, "SERVER_DATABASE_ERROR")
    ELSE Reply(500, "UNHANDLED_REJECTION")

\* the requests the server handles at once: each has a handler of its own
Handlers == 1 .. MaxHandlers
HandlerIdle == [pc |-> "idle", update |-> StateUpdate(0, Htlc(HtlcUpdate("", 0, 0))), resp |-> NoReply]
HttpIdle == [h \in Handlers |-> HandlerIdle]

\* main's Serve loop: where main is, the generation of tasks it has spawned,
\* the exchange session's task, the HTTP server's future, the permit of
\* auth_notify, and the three abort handles
\* a generation whose auth_notify were created holding a permit
SupAtAuthenticated(main, generation) ==
    [main |-> main, generation |-> generation, ws |-> "off", api |-> "off", auth |-> TRUE,
     abort_ws |-> FALSE, abort_exe |-> FALSE, abort_api |-> FALSE,
     transport |-> "off", stream |-> "open", abort_listen |-> FALSE, outbox |-> <<>>]

SupAt(main, generation) ==
    [main |-> main, generation |-> generation, ws |-> "off", api |-> "off", auth |-> FALSE,
     abort_ws |-> FALSE, abort_exe |-> FALSE, abort_api |-> FALSE,
     transport |-> "off", stream |-> "open", abort_listen |-> FALSE, outbox |-> <<>>]
\* before the loop is entered
SupOff == SupAt("off", 0)

\* the processes before they are started
ServiceOff ==
    /\ state = StateNew(DefaultConfig, 0)
    /\ lock = "free"
    /\ permit = FALSE
    /\ worker = WorkerAt("off")
    /\ http = HttpIdle
    /\ submitted = <<>>
    /\ next_id = 1
    /\ requests = 0
    /\ sup = SupOff

\* the engine's variables when no function of State is under study
NoOrder == KolliderOrder(0, 0, 0, 0, 0, "Bid")
NoAction == CloseOrder(0, "")
NoOutcome ==
    [op |-> "None", msg |-> MsgOther, order |-> NoOrder, kind |-> "None",
     changed |-> FALSE, state |-> StateNew(DefaultConfig, 0), margin |-> 0,
     stats |-> StatsNew, action |-> NoAction, frames |-> <<>>,
     update |-> StateUpdate(0, Snapshot(EmptyMap)), stream |-> <<>>]
EngineIdle ==
    /\ ledger = StateNew(DefaultConfig, 0)
    /\ outcome = NoOutcome

\* the algebra's variables when no combination is under study
AlgebraIdle ==
    /\ hedge = ChannelHedge(0, 0)
    /\ upd = ChannelHedge(0, 0)
    /\ new_hedge = NoResult

HtlcInfo(c, s, r) == [channel_id |-> c, sats |-> s, rate |-> r]
\* HtlcInfo::into_update: rate is a u64, cast to i64
into_update(info) == HtlcUpdate(info.channel_id, info.sats, AsI64(info.rate))

\* hedge_htlc up to state_mx.lock(): the body is parsed and the update stamped
HttpReceive(h, info, max) ==
    /\ http[h].pc = "idle"
    /\ requests < max
    /\ requests' = requests + 1
    /\ http' = [http EXCEPT ![h] =
                   [pc |-> "locking", update |-> StateUpdate(requests + 1, Htlc(into_update(info))),
                    resp |-> NoReply]]
    /\ UNCHANGED <<overflow_checks, alg_vars, db_vars, eng_vars, sup>>
    /\ UNCHANGED <<state, lock, permit, worker, submitted, next_id>>

\* the lock is taken and state.apply_update(update)? runs on the ledger in
\* place: on an error (or a panic) the guard is dropped and the request is
\* rejected, the ledger staying as the failed call left it
HttpApply(h) ==
    /\ http[h].pc = "locking"
    /\ lock = "free"
    /\ LET res == apply_update(state, http[h].update)
       IN /\ state' = res.state
          /\ IF res.kind = "Ok"
             THEN /\ lock' = held_by("http")
                  /\ http' = [http EXCEPT ![h].pc = "applied"]
             ELSE /\ http' = [http EXCEPT ![h].pc = "idle",
                                          ![h].resp = IF res.kind = "Panic" THEN ReplyPanic
                                                      ELSE handle_rejection(res.kind)]
                  /\ lock' = lock
    /\ UNCHANGED <<overflow_checks, alg_vars, db_vars, eng_vars, sup>>
    /\ UNCHANGED <<permit, worker, submitted, next_id, requests>>

\* insert_update(&pool, update.body).await?, then notify_one and the reply;
\* when the insertion fails the request is rejected without a notification
HttpPersist(h, ok) ==
    /\ http[h].pc = "applied"
    /\ IF ok
       THEN /\ log' = insert_update(log, http[h].update.body)
            /\ permit' = notify_one(permit)
            /\ http' = [http EXCEPT ![h].pc = "idle", ![h].resp = ReplyOk]
       ELSE /\ http' = [http EXCEPT ![h].pc = "idle", ![h].resp = handle_rejection(DbError)]
            /\ UNCHANGED <<log, permit>>
    /\ lock' = "free"
    /\ UNCHANGED <<overflow_checks, alg_vars, replay, eng_vars, sup>>
    /\ UNCHANGED <<state, worker, submitted, next_id, requests>>

\* the head of the worker's loop: lock, calculate_next_actions, clone the
\* scheduled actions.  A panic unwinds the task and drops the guard.
WorkerCycleBegin ==
    /\ worker.pc = "top"
    /\ lock = "free"
    /\ next_id <= MaxOrders
    /\ LET res == calculate_next_actions(state, next_id)
       IN IF res.kind = "Ok"
          THEN /\ state' = res.state
               /\ lock' = held_by("worker")
               /\ worker' = [pc |-> "exec", actions |-> res.state.scheduled_actions, i |-> 1]
               /\ next_id' = IF res.state.scheduled_actions # state.scheduled_actions
                             THEN next_id + 1 ELSE next_id
          ELSE /\ worker' = WorkerAt("panicked")
               /\ UNCHANGED <<state, lock, next_id>>
    /\ UNCHANGED <<overflow_checks, alg_vars, db_vars, eng_vars, sup>>
    /\ UNCHANGED <<permit, http, submitted, requests>>

\* one turn of `for action in actions.iter()`: execute_action, then
\* finalize_action whether it succeeded or not; a failure ends the worker
WorkerExecute(ok) ==
    /\ worker.pc = "exec"
    /\ worker.i <= Len(worker.actions)
    /\ LET action == worker.actions[worker.i]
       IN /\ state' = finalize_action(state, action)
          /\ IF ok
             THEN /\ submitted' = Append(submitted, action)
                  /\ worker' = [worker EXCEPT !.i = @ + 1]
                  /\ lock' = lock
             ELSE /\ submitted' = submitted
                  /\ worker' = WorkerAt("failed")
                  /\ lock' = "free"
    /\ UNCHANGED <<overflow_checks, alg_vars, db_vars, eng_vars, sup>>
    /\ UNCHANGED <<permit, http, next_id, requests>>

\* state.scheduled_actions = vec![], the guard is dropped, notified() awaits
WorkerCycleEnd ==
    /\ worker.pc = "exec"
    /\ worker.i > Len(worker.actions)
    /\ state' = [state EXCEPT !.scheduled_actions = <<>>]
    /\ lock' = "free"
    /\ worker' = WorkerAt("wait")
    /\ UNCHANGED <<overflow_checks, alg_vars, db_vars, eng_vars, sup>>
    /\ UNCHANGED <<permit, http, submitted, next_id, requests>>

\* state_notify.notified() completes by consuming the permit
WorkerWake ==
    /\ worker.pc = "wait"
    /\ permit
    /\ permit' = FALSE
    /\ worker' = WorkerAt("top")
    /\ UNCHANGED <<overflow_checks, alg_vars, db_vars, eng_vars, sup>>
    /\ UNCHANGED <<state, lock, http, submitted, next_id, requests>>

\* the listener applies one frame under the lock and notifies when the
\* ledger reports a modification
WsMessage(msg) ==
    /\ lock = "free"
    /\ LET res == apply_kollider_message(state, msg)
       IN /\ state' = res.state
          /\ permit' = IF res.changed THEN notify_one(permit) ELSE permit
    /\ UNCHANGED <<overflow_checks, alg_vars, db_vars, eng_vars, sup>>
    /\ UNCHANGED <<lock, worker, http, submitted, next_id, requests>>

(***************************************************************************)
(* The harness of test_api_hedge (api.rs): the ledger starts with a ticker *)
(* and an empty list of opened orders, the worker runs from the start with *)
(* an executor that always succeeds, and the client posts once.            *)
(***************************************************************************)
Channels == {"aboba", "b"}
HtlcSats == {20, 4, -1}
HtlcRates == {1, 2}
HtlcInfos == {HtlcInfo(c, s, r) : c \in Channels, s \in HtlcSats, r \in HtlcRates}
\* USD per BTC; the high values give a price in sats per USD, and with it a
\* gap, below the amounts the reduced width can hold
Tickers == {35000000, 10000000}

InitE2E ==
    /\ overflow_checks \in BOOLEAN
    /\ AlgebraIdle
    /\ EngineIdle
    /\ log = <<>>
    /\ replay = NotReplayed
    /\ \E t \in Tickers :
          state = [StateNew(DefaultConfig, 0) EXCEPT !.opened_orders = Some(<<>>),
                                                     !.ticker = Some(t)]
    /\ lock = "free"
    /\ permit = FALSE
    /\ worker = WorkerAt("top")
    /\ http = HttpIdle
    /\ submitted = <<>>
    /\ next_id = 1
    /\ requests = 0
    /\ sup = SupOff

NextE2E ==
    \/ \E info \in HtlcInfos : HttpReceive(1, info, 1)
    \/ HttpApply(1)
    \/ \E ok \in BOOLEAN : HttpPersist(1, ok)
    \/ WorkerCycleBegin
    \/ WorkerExecute(TRUE)
    \/ WorkerCycleEnd
    \/ WorkerWake

SpecE2E == InitE2E /\ [][NextE2E]_vars

\* the runtime polls a task that can make progress
WorkerFairness ==
    /\ WF_vars(WorkerCycleBegin)
    /\ WF_vars(WorkerExecute(TRUE))
    /\ WF_vars(WorkerCycleEnd)
    /\ WF_vars(WorkerWake)

FairSpecE2E == SpecE2E /\ WorkerFairness

(***************************************************************************)
(* The service: the ledger starts empty, requests and frames of the        *)
(* exchange arrive in any order, the executor may fail.                    *)
(***************************************************************************)
WsFrames ==
    {MsgIndexValues(DefaultConfig.hedge_pair, t) : t \in Tickers}
        \cup {MsgOpenOrders(EmptyMap), MsgOther}

InitService ==
    /\ overflow_checks \in BOOLEAN
    /\ AlgebraIdle
    /\ EngineIdle
    /\ log = <<>>
    /\ replay = NotReplayed
    /\ state = StateNew(DefaultConfig, 0)
    /\ lock = "free"
    /\ permit = FALSE
    /\ worker = WorkerAt("top")
    /\ http = HttpIdle
    /\ submitted = <<>>
    /\ next_id = 1
    /\ requests = 0
    /\ sup = SupOff

NextService ==
    \/ \E info \in HtlcInfos : HttpReceive(1, info, MaxPosts)
    \/ HttpApply(1)
    \/ \E ok \in BOOLEAN : HttpPersist(1, ok)
    \/ \E msg \in WsFrames : WsMessage(msg)
    \/ WorkerCycleBegin
    \/ \E ok \in BOOLEAN : WorkerExecute(ok)
    \/ WorkerCycleEnd
    \/ WorkerWake

SpecService == InitService /\ [][NextService]_vars

\* the runtime polls a task that can make progress, and the database answers
ServiceFairness ==
    /\ WF_vars(HttpApply(1))
    /\ WF_vars(\E ok \in BOOLEAN : HttpPersist(1, ok))
    /\ WF_vars(WorkerCycleBegin)
    /\ WF_vars(\E ok \in BOOLEAN : WorkerExecute(ok))
    /\ WF_vars(WorkerCycleEnd)
    /\ WF_vars(WorkerWake)

FairSpecService == SpecService /\ ServiceFairness

(***************************************************************************)
(* The supervised service (main.rs): main's Serve loop replays the log,    *)
(* spawns the exchange session and the action worker, and awaits the HTTP  *)
(* server.  A task is aborted through its AbortHandle: the abort takes     *)
(* effect when the task is next polled, that is at one of its awaits.      *)
(***************************************************************************)
\* create_db_pool(..)?, query_state(..)?, the Mutex, the two Notify, the
\* three handles, the two tokio::spawn, serve_api: `?` returns from main
SupBoot(dbok) ==
    /\ sup.main = "boot"
    /\ LET res == query_state(log, DefaultConfig, requests)
       IN IF dbok /\ res.kind = "Ok"
          THEN /\ state' = res.state
               /\ lock' = "free"
               /\ permit' = FALSE
               /\ worker' = WorkerAt("auth")
               /\ http' = HttpIdle
               /\ sup' = [SupAt("serving", sup.generation + 1) EXCEPT
                             !.ws = "running", !.api = "starting"]
          ELSE /\ sup' = [sup EXCEPT !.main = "exited"]
               /\ UNCHANGED <<state, lock, permit, worker, http>>
    /\ UNCHANGED <<overflow_checks, alg_vars, db_vars, eng_vars>>
    /\ UNCHANGED <<submitted, next_id, requests>>

\* serve_api: the host parses and the server accepts requests
ApiServe ==
    /\ sup.main = "serving"
    /\ sup.api = "starting"
    /\ ~sup.abort_api
    /\ sup' = [sup EXCEPT !.api = "running"]
    /\ UNCHANGED <<overflow_checks, alg_vars, db_vars, eng_vars>>
    /\ UNCHANGED <<state, lock, permit, worker, http, submitted, next_id, requests>>

\* serve_api returns Err (IpAddr::from_str(host)?): `Ok(mres) => mres?`
\* returns the error from main, and the runtime ends with its tasks
ApiFail ==
    /\ sup.main = "serving"
    /\ sup.api = "starting"
    /\ ~sup.abort_api
    /\ sup' = [sup EXCEPT !.main = "exited", !.api = "failed", !.ws = "off"]
    /\ worker' = WorkerAt("off")
    /\ lock' = "free"
    /\ UNCHANGED <<overflow_checks, alg_vars, db_vars, eng_vars>>
    /\ UNCHANGED <<state, permit, http, submitted, next_id, requests>>

\* the Authenticate frame: the listener applies it (no field of the ledger
\* takes it) and notifies auth_notify
WsAuthenticate ==
    /\ sup.ws = "running"
    /\ ~sup.abort_ws
    /\ lock = "free"
    /\ ~sup.auth
    /\ sup' = [sup EXCEPT !.auth = notify_one(sup.auth)]
    /\ UNCHANGED <<overflow_checks, alg_vars, db_vars, eng_vars>>
    /\ UNCHANGED <<state, lock, permit, worker, http, submitted, next_id, requests>>

\* auth_notify.notified().await completes and state_action_worker is entered
WorkerStart ==
    /\ worker.pc = "auth"
    /\ sup.auth
    /\ sup' = [sup EXCEPT !.auth = FALSE]
    /\ worker' = WorkerAt("top")
    /\ UNCHANGED <<overflow_checks, alg_vars, db_vars, eng_vars>>
    /\ UNCHANGED <<state, lock, permit, http, submitted, next_id, requests>>

\* listen_websocket returns Err (the transport ended, a send failed): the
\* session's task aborts the worker and the server
WsFail ==
    /\ sup.ws = "running"
    /\ sup' = [sup EXCEPT !.ws = "failed", !.abort_exe = TRUE, !.abort_api = TRUE]
    /\ UNCHANGED <<overflow_checks, alg_vars, db_vars, eng_vars>>
    /\ UNCHANGED <<state, lock, permit, worker, http, submitted, next_id, requests>>

\* state_action_worker has returned Err: the worker's task aborts the
\* session and the server, and ends
WorkerReportsErr ==
    /\ worker.pc = "failed"
    /\ sup.main \in {"serving", "backoff"}
    /\ sup' = [sup EXCEPT !.abort_ws = TRUE, !.abort_api = TRUE]
    /\ worker' = WorkerAt("ended")
    /\ UNCHANGED <<overflow_checks, alg_vars, db_vars, eng_vars>>
    /\ UNCHANGED <<state, lock, permit, http, submitted, next_id, requests>>

\* the session's task is polled after abort_ws_handle.abort()
WsAborted ==
    /\ sup.ws = "running"
    /\ sup.abort_ws
    /\ sup' = [sup EXCEPT !.ws = "aborted"]
    /\ UNCHANGED <<overflow_checks, alg_vars, db_vars, eng_vars>>
    /\ UNCHANGED <<state, lock, permit, worker, http, submitted, next_id, requests>>

\* the worker's task is polled after abort_exe_handle.abort(): it is dropped
\* at the await it is pending on (auth_notify, the lock, state_notify)
WorkerAborted ==
    /\ worker.pc \in {"auth", "top", "wait"}
    /\ sup.abort_exe
    /\ worker' = WorkerAt("aborted")
    /\ UNCHANGED <<overflow_checks, alg_vars, db_vars, eng_vars, sup>>
    /\ UNCHANGED <<state, lock, permit, http, submitted, next_id, requests>>

\* main is polled after abort_api_handle.abort(): Err(Aborted), and the
\* sleep of 5 seconds begins
ApiAborted ==
    /\ sup.main = "serving"
    /\ sup.abort_api
    /\ sup' = [sup EXCEPT !.main = "backoff", !.api = "aborted"]
    /\ UNCHANGED <<overflow_checks, alg_vars, db_vars, eng_vars>>
    /\ UNCHANGED <<state, lock, permit, worker, http, submitted, next_id, requests>>

\* the tasks of the generation have ended: none is running synchronous code
\* or answering a request it had received
GenerationEnded ==
    /\ worker.pc \in {"aborted", "ended", "panicked", "off"}
    /\ sup.ws \in {"failed", "aborted", "ended", "off"}
    /\ \A h \in Handlers : http[h].pc = "idle"

\* sleep(restart_dt).await completes and the loop starts over
SupSleep ==
    /\ sup.main = "backoff"
    /\ sup.generation < MaxGenerations
    /\ GenerationEnded
    /\ sup' = [sup EXCEPT !.main = "boot"]
    /\ UNCHANGED <<overflow_checks, alg_vars, db_vars, eng_vars>>
    /\ UNCHANGED <<state, lock, permit, worker, http, submitted, next_id, requests>>

SupHtlcInfos == {HtlcInfo(c, s, 1) : c \in Channels, s \in {20, -1}}
SupFrames == {MsgIndexValues(DefaultConfig.hedge_pair, 35000000), MsgOpenOrders(EmptyMap)}

InitSupervised ==
    /\ overflow_checks \in BOOLEAN
    /\ AlgebraIdle
    /\ EngineIdle
    /\ log = <<>>
    /\ replay = NotReplayed
    /\ state = StateNew(DefaultConfig, 0)
    /\ lock = "free"
    /\ permit = FALSE
    /\ worker = WorkerAt("off")
    /\ http = HttpIdle
    /\ submitted = <<>>
    /\ next_id = 1
    /\ requests = 0
    /\ sup = SupAt("boot", 0)

NextSupervised ==
    \/ \E dbok \in BOOLEAN : SupBoot(dbok)
    \/ ApiServe
    \/ ApiFail
    \/ sup.api = "running" /\ \E info \in SupHtlcInfos : HttpReceive(1, info, MaxPosts)
    \/ HttpApply(1)
    \/ \E ok \in BOOLEAN : HttpPersist(1, ok)
    \/ sup.ws = "running" /\ ~sup.abort_ws /\ \E msg \in SupFrames : WsMessage(msg)
    \/ WsAuthenticate
    \/ WsFail
    \/ WsAborted
    \/ WorkerStart
    \/ WorkerCycleBegin
    \/ \E ok \in BOOLEAN : WorkerExecute(ok)
    \/ WorkerCycleEnd
    \/ WorkerWake
    \/ WorkerReportsErr
    \/ WorkerAborted
    \/ ApiAborted
    \/ SupSleep

SpecSupervised == InitSupervised /\ [][NextSupervised]_vars

\* the runtime polls a task that can make progress, the database answers,
\* the sleep ends
SupervisedFairness ==
    /\ WF_vars(\E dbok \in BOOLEAN : SupBoot(dbok))
    /\ WF_vars(HttpApply(1))
    /\ WF_vars(\E ok \in BOOLEAN : HttpPersist(1, ok))
    /\ WF_vars(WorkerCycleBegin)
    /\ WF_vars(\E ok \in BOOLEAN : WorkerExecute(ok))
    /\ WF_vars(WorkerCycleEnd)
    /\ WF_vars(WorkerReportsErr)
    /\ WF_vars(WorkerAborted)
    /\ WF_vars(WsAborted)
    /\ WF_vars(ApiAborted)
    /\ WF_vars(SupSleep)

FairSpecSupervised == SpecSupervised /\ SupervisedFairness

(***************************************************************************)
(* The exchange session in detail (listen_websocket): the session's task   *)
(* places the authentication message on the outbound channel, spawns the   *)
(* transport task (kollider_websocket, which owns the receiving end of the *)
(* outbound channel and the sending end of the inbound one) and listens to *)
(* the inbound stream under an abort handle of its own; the worker writes  *)
(* its frames to the outbound channel.  The runtime is tokio's default,    *)
(* with several threads: two tasks run side by side.                       *)
(***************************************************************************)
\* the kinds of the frames a sequence of KolliderMsg holds
FrameTypes(frames) == [i \in 1 .. Len(frames) |-> frames[i].type]

\* listen_websocket up to the spawn: make_user_auth(..)?, the message is sent
\* on stdin_tx and the transport task is spawned
SessOpen(ok) ==
    /\ sup.ws = "running"
    /\ ~sup.abort_ws
    /\ sup.transport = "off"
    /\ sup' = IF ok
              THEN [sup EXCEPT !.outbox = Append(@, "Authenticate"), !.transport = "running"]
              ELSE [sup EXCEPT !.ws = "failed", !.abort_exe = TRUE, !.abort_api = TRUE]
    /\ UNCHANGED <<overflow_checks, alg_vars, db_vars, eng_vars>>
    /\ UNCHANGED <<state, lock, permit, worker, http, submitted, next_id, requests>>

\* the Authenticate frame of the exchange: auth_notify.notify_one(), then
\* Subscribe, FetchOpenOrders and FetchPositions are sent
SessAuthenticate ==
    /\ sup.ws = "running"
    /\ ~sup.abort_ws /\ ~sup.abort_listen
    /\ sup.transport = "running"
    /\ lock = "free"
    /\ \A i \in 1 .. Len(sup.outbox) : sup.outbox[i] # "Subscribe"
    /\ sup' = [sup EXCEPT !.auth = notify_one(sup.auth),
                          !.outbox = @ \o <<"Subscribe", "FetchOpenOrders", "FetchPositions">>]
    /\ UNCHANGED <<overflow_checks, alg_vars, db_vars, eng_vars>>
    /\ UNCHANGED <<state, lock, permit, worker, http, submitted, next_id, requests>>

\* a frame the transport passes on is applied by the listener
SessMessage(msg) ==
    /\ sup.ws = "running"
    /\ ~sup.abort_ws /\ ~sup.abort_listen
    /\ sup.transport = "running"
    /\ WsMessage(msg)

\* kollider_websocket returns, with an error or because the connection was
\* closed: its arguments, msg_sender and stdin_rx, are dropped
TransportEnds ==
    /\ sup.transport = "running"
    /\ sup' = [sup EXCEPT !.transport = "ended", !.stream = "closed"]
    /\ UNCHANGED <<overflow_checks, alg_vars, db_vars, eng_vars>>
    /\ UNCHANGED <<state, lock, permit, worker, http, submitted, next_id, requests>>

\* the transport task goes on to abort_handle.abort()
TransportAborts ==
    /\ sup.transport = "ended"
    /\ sup' = [sup EXCEPT !.transport = "done", !.abort_listen = TRUE]
    /\ UNCHANGED <<overflow_checks, alg_vars, db_vars, eng_vars>>
    /\ UNCHANGED <<state, lock, permit, worker, http, submitted, next_id, requests>>

\* the listener is polled after the abort: Abortable answers Err(Aborted),
\* listen_websocket returns it and the session's task aborts the worker and
\* the server
ListenAborted ==
    /\ sup.ws = "running"
    /\ ~sup.abort_ws
    /\ sup.abort_listen
    /\ sup' = [sup EXCEPT !.ws = "failed", !.abort_exe = TRUE, !.abort_api = TRUE]
    /\ UNCHANGED <<overflow_checks, alg_vars, db_vars, eng_vars>>
    /\ UNCHANGED <<state, lock, permit, worker, http, submitted, next_id, requests>>

\* the listener is polled when the inbound stream has ended and the abort
\* has not been set yet: for_each completes, Abortable answers Ok(()),
\* listen_websocket returns Ok(()) and the session's task ends
ListenStreamEnds ==
    /\ sup.ws = "running"
    /\ ~sup.abort_ws
    /\ sup.stream = "closed"
    /\ ~sup.abort_listen
    /\ sup' = [sup EXCEPT !.ws = "ended"]
    /\ UNCHANGED <<overflow_checks, alg_vars, db_vars, eng_vars>>
    /\ UNCHANGED <<state, lock, permit, worker, http, submitted, next_id, requests>>

\* one turn of `for action in actions.iter()` with main's executor: the
\* frames of the action are sent on stdin_tx, which fails once the transport
\* has dropped the receiving end; finalize_action follows either way
SessExecute ==
    /\ worker.pc = "exec"
    /\ worker.i <= Len(worker.actions)
    /\ LET action == worker.actions[worker.i]
           res == to_kollider_messages(action)
           ok == sup.transport \in {"off", "running"}
       IN IF res.kind = "Panic"
          THEN /\ worker' = WorkerAt("panicked")
               /\ lock' = "free"
               /\ UNCHANGED <<state, submitted, sup>>
          ELSE /\ state' = finalize_action(state, action)
               /\ IF ok
                  THEN /\ submitted' = Append(submitted, action)
                       /\ sup' = [sup EXCEPT !.outbox = @ \o FrameTypes(res.frames)]
                       /\ worker' = [worker EXCEPT !.i = @ + 1]
                       /\ lock' = lock
                  ELSE /\ worker' = WorkerAt("failed")
                       /\ lock' = "free"
                       /\ UNCHANGED <<submitted, sup>>
    /\ UNCHANGED <<overflow_checks, alg_vars, db_vars, eng_vars>>
    /\ UNCHANGED <<permit, http, next_id, requests>>

SessHtlcInfos == {HtlcInfo("aboba", 20, 1)}

InitSession == InitSupervised

NextSession ==
    \/ \E dbok \in BOOLEAN : SupBoot(dbok)
    \/ ApiServe
    \/ ApiFail
    \/ sup.api = "running" /\ \E info \in SessHtlcInfos : HttpReceive(1, info, MaxPosts)
    \/ HttpApply(1)
    \/ \E ok \in BOOLEAN : HttpPersist(1, ok)
    \/ \E ok \in BOOLEAN : SessOpen(ok)
    \/ SessAuthenticate
    \/ \E msg \in SupFrames : SessMessage(msg)
    \/ TransportEnds
    \/ TransportAborts
    \/ ListenAborted
    \/ ListenStreamEnds
    \/ WsAborted
    \/ WorkerStart
    \/ WorkerCycleBegin
    \/ SessExecute
    \/ WorkerCycleEnd
    \/ WorkerWake
    \/ WorkerReportsErr
    \/ WorkerAborted
    \/ ApiAborted
    \/ SupSleep

SpecSession == InitSession /\ [][NextSession]_vars

\* the runtime polls a task that can make progress, the database answers,
\* the sleep ends
SessionFairness ==
    /\ WF_vars(\E dbok \in BOOLEAN : SupBoot(dbok))
    /\ WF_vars(HttpApply(1))
    /\ WF_vars(\E ok \in BOOLEAN : HttpPersist(1, ok))
    /\ WF_vars(\E ok \in BOOLEAN : SessOpen(ok))
    /\ WF_vars(TransportAborts)
    /\ WF_vars(ListenAborted)
    /\ WF_vars(ListenStreamEnds)
    /\ WF_vars(WsAborted)
    /\ WF_vars(WorkerStart)
    /\ WF_vars(WorkerCycleBegin)
    /\ WF_vars(SessExecute)
    /\ WF_vars(WorkerCycleEnd)
    /\ WF_vars(WorkerWake)
    /\ WF_vars(WorkerReportsErr)
    /\ WF_vars(WorkerAborted)
    /\ WF_vars(ApiAborted)
    /\ WF_vars(SupSleep)

FairSpecSession == SpecSession /\ SessionFairness

(***************************************************************************)
(* The service with HTLCs at the limits of the amounts the API accepts     *)
(* (sats is an i64).                                                       *)
(***************************************************************************)
LimitHtlcInfos == {HtlcInfo("aboba", s, 1) : s \in {I64Max, 20, -1}}

InitLimits == InitService

NextLimits ==
    \/ \E info \in LimitHtlcInfos : HttpReceive(1, info, MaxPosts)
    \/ HttpApply(1)
    \/ \E ok \in BOOLEAN : HttpPersist(1, ok)
    \/ \E msg \in SupFrames : WsMessage(msg)
    \/ WorkerCycleBegin
    \/ \E ok \in BOOLEAN : WorkerExecute(ok)
    \/ WorkerCycleEnd
    \/ WorkerWake

SpecLimits == InitLimits /\ [][NextLimits]_vars

(***************************************************************************)
(* The service with an exchange that reports a position and acknowledges   *)
(* the orders it was sent: orders of both sides go from scheduled_actions  *)
(* through opening_orders to opened_orders.                                *)
(***************************************************************************)
LifeHtlcInfos == {HtlcInfo("aboba", s, 1) : s \in {20, 4}}
LifeFrames ==
    {MsgIndexValues(DefaultConfig.hedge_pair, 35000000),
     MsgOpenOrders(EmptyMap),
     MsgPositions(DefaultConfig.hedge_sym :> KolliderPosition(50, 3))}
        \cup {MsgReceived(KolliderOrder(5, e, DefaultLeverage, 250000000, 5, side)) :
                 e \in 1 .. MaxOrders, side \in {Bid, Ask}}

InitLife == InitService

NextLife ==
    \/ \E info \in LifeHtlcInfos : HttpReceive(1, info, MaxPosts)
    \/ HttpApply(1)
    \/ \E ok \in BOOLEAN : HttpPersist(1, ok)
    \/ \E msg \in LifeFrames : WsMessage(msg)
    \/ WorkerCycleBegin
    \/ \E ok \in BOOLEAN : WorkerExecute(ok)
    \/ WorkerCycleEnd
    \/ WorkerWake

SpecLife == InitLife /\ [][NextLife]_vars

(***************************************************************************)
(* The service with several POST /hedge/htlc requests in flight at once:   *)
(* the HTTP server runs every request as a task of its own.                *)
(***************************************************************************)
WriterHtlcInfos == {HtlcInfo("aboba", s, r) : s \in {20, 4, -1}, r \in {1, 2}}

InitWriters == InitService

NextWriters ==
    \/ \E h \in Handlers, info \in WriterHtlcInfos : HttpReceive(h, info, MaxPosts)
    \/ \E h \in Handlers : HttpApply(h)
    \/ \E h \in Handlers, ok \in BOOLEAN : HttpPersist(h, ok)
    \/ \E msg \in WsFrames : WsMessage(msg)
    \/ WorkerCycleBegin
    \/ \E ok \in BOOLEAN : WorkerExecute(ok)
    \/ WorkerCycleEnd
    \/ WorkerWake

SpecWriters == InitWriters /\ [][NextWriters]_vars

(***************************************************************************)
(* The service with an exchange that answers every order it was sent: a    *)
(* Received frame and an Open frame that repeat the order's ext_order_id,  *)
(* price, quantity, leverage and side, in either order.  One HTLC is       *)
(* posted, the ticker does not move, there is no position; hedge_leverage  *)
(* is 100 or 200.                                                          *)
(***************************************************************************)
AckLeverages == {DefaultLeverage, 200}
AckHtlcInfos == {HtlcInfo("aboba", 40, 1)}

\* the order of the exchange for a submitted OpenOrder, as it was sent
EchoOrder(action) ==
    LET f == to_kollider_messages(action).frames[1]
    IN KolliderOrder(f.ext_order_id, f.ext_order_id, f.leverage, f.price, f.quantity, f.side)
SentOrders == {i \in 1 .. Len(submitted) : submitted[i].type = "OpenOrder"}
\* entries of opened_orders with the ext_id
Copies(st, e) ==
    IF IsSome(st.opened_orders)
    THEN Cardinality({i \in 1 .. Len(Unwrap(st.opened_orders)) : Unwrap(st.opened_orders)[i].ext_id = e})
    ELSE 0
\* opened_orders holds the entry of an Open frame for the ext_id: the exchange
\* sends one Open frame for an order
OpenSeen(st, e) == Copies(st, e) > (IF e \in DOMAIN st.opening_orders THEN 0 ELSE 1)
AckFrames ==
    {MsgIndexValues(DefaultConfig.hedge_pair, 35000000), MsgOpenOrders(EmptyMap)}
        \cup {MsgReceived(EchoOrder(submitted[i])) : i \in SentOrders}
        \cup {MsgOpen(DefaultConfig.hedge_sym, EchoOrder(submitted[i])) :
                 i \in {j \in SentOrders : ~OpenSeen(state, submitted[j].order.ext_id)}}

InitAcks ==
    /\ overflow_checks \in BOOLEAN
    /\ AlgebraIdle
    /\ EngineIdle
    /\ log = <<>>
    /\ replay = NotReplayed
    /\ \E l \in AckLeverages :
          state = StateNew([DefaultConfig EXCEPT !.hedge_leverage = l], 0)
    /\ lock = "free"
    /\ permit = FALSE
    /\ worker = WorkerAt("top")
    /\ http = HttpIdle
    /\ submitted = <<>>
    /\ next_id = 1
    /\ requests = 0
    /\ sup = SupOff

NextAcks ==
    \/ \E info \in AckHtlcInfos : HttpReceive(1, info, 1)
    \/ HttpApply(1)
    \/ \E ok \in BOOLEAN : HttpPersist(1, ok)
    \/ \E msg \in AckFrames : WsMessage(msg)
    \/ WorkerCycleBegin
    \/ \E ok \in BOOLEAN : WorkerExecute(ok)
    \/ WorkerCycleEnd
    \/ WorkerWake

SpecAcks == InitAcks /\ [][NextAcks]_vars

(***************************************************************************)
(* The service with a database that may refuse an insertion, and with one  *)
(* request more than the other specifications post: additions and a        *)
(* subtraction on one channel.                                             *)
(***************************************************************************)
LedgerHtlcInfos == {HtlcInfo("aboba", s, 1) : s \in {20, 4, -20}}

InitLedger == InitService

NextLedger ==
    \/ \E info \in LedgerHtlcInfos : HttpReceive(1, info, MaxPosts + 1)
    \/ HttpApply(1)
    \/ \E ok \in BOOLEAN : HttpPersist(1, ok)
    \/ \E msg \in WsFrames : WsMessage(msg)
    \/ WorkerCycleBegin
    \/ \E ok \in BOOLEAN : WorkerExecute(ok)
    \/ WorkerCycleEnd
    \/ WorkerWake

SpecLedger == InitLedger /\ [][NextLedger]_vars

(***************************************************************************)
(* The management endpoint GET /stats (api.rs) beside the write path: the  *)
(* ledger is the one the requests POST /hedge/htlc have built.             *)
(***************************************************************************)
StatsHtlcInfos == {HtlcInfo(c, s, r) : c \in Channels, s \in {20, 0, -1}, r \in {0, 1, 2}}

\* GET /stats: the lock is taken, the figures are computed, the reply is sent
QueryStats ==
    /\ lock = "free"
    /\ \E order \in IterOrders(state.channels_hedge) :
          outcome' = [NoOutcome EXCEPT !.op = "stats", !.state = state,
                                       !.stats = query_stats(state, order)]
    /\ UNCHANGED <<overflow_checks, alg_vars, db_vars, sys_vars, ledger>>

InitStats == InitService

NextStats ==
    \/ \E info \in StatsHtlcInfos : HttpReceive(1, info, MaxPosts)
    \/ HttpApply(1)
    \/ \E ok \in BOOLEAN : HttpPersist(1, ok)
    \/ QueryStats

SpecStats == InitStats /\ [][NextStats]_vars

(***************************************************************************)
(* The functions of State on their own: a ledger is drawn from the values  *)
(* its fields take in the service, and one function is applied to it.      *)
(* scheduled_actions is empty whenever the worker is not inside a cycle.   *)
(***************************************************************************)
\* prices as the exchange stores them, in tenths of USD per BTC
\* (10^9 / price is the price in sats per USD)
EngineOrderPrices == {250000000, 500000000}
EngineOrders ==
    {KolliderOrder(id, id + 10, DefaultLeverage, p, q, side) :
        id \in {1}, p \in EngineOrderPrices, q \in {2, 5}, side \in {Bid, Ask}}
EngineOpenedOrders ==
    {None, Some(<<>>)} \cup {Some(<<o>>) : o \in EngineOrders}
        \cup {Some(<<KolliderOrder(1, 11, DefaultLeverage, 250000000, 2, Ask),
                     KolliderOrder(2, 12, DefaultLeverage, 500000000, 5, Bid)>>)}
EngineChannelMaps ==
    {EmptyMap,
     "aboba" :> ChannelHedge(20, 2),
     "aboba" :> ChannelHedge(4, 2),
     "aboba" :> ChannelHedge(-20, 2),
     ("aboba" :> ChannelHedge(20, 2)) @@ ("b" :> ChannelHedge(40, 1)),
     ("aboba" :> ChannelHedge(20, 2)) @@ ("b" :> ChannelHedge(-1, 1))}
EnginePositions == {None, Some(KolliderPosition(50, 3)), Some(KolliderPosition(10, 1))}
EngineOpening ==
    {EmptyMap,
     7 :> OpeningOrder(7, DefaultConfig.hedge_sym, 18, 4, Bid, DefaultLeverage),
     8 :> OpeningOrder(8, DefaultConfig.hedge_sym, 30, 4, Ask, DefaultLeverage),
     (7 :> OpeningOrder(7, DefaultConfig.hedge_sym, 18, 4, Bid, DefaultLeverage))
        @@ (8 :> OpeningOrder(8, DefaultConfig.hedge_sym, 30, 4, Ask, DefaultLeverage))}
EngineTickers == {None} \cup {Some(t) : t \in Tickers}
\* spread_percent of the configuration, in hundredths of a percent
EngineSpreads == {DefaultSpreadBp, 2500}

EngineLedgers ==
    {[StateNew([DefaultConfig EXCEPT !.spread_bp = sp], 0) EXCEPT
          !.channels_hedge = ch, !.ticker = t, !.opened_orders = oo,
          !.opened_position = pos, !.opening_orders = op] :
        sp \in EngineSpreads, ch \in EngineChannelMaps, t \in EngineTickers,
        oo \in EngineOpenedOrders, pos \in EnginePositions, op \in EngineOpening}

\* orders whose margin is asked for
MarginOrders ==
    {KolliderOrder(0, 0, l, p, q, Ask) :
        l \in {100, 200, 300}, p \in {500000, 350000, 333000, 1000}, q \in {1, 2, 7}}

\* frames of the exchange
EngineFrames ==
    {MsgOpenOrders(EmptyMap), MsgOther, MsgBalances(5), MsgPositions(EmptyMap),
     MsgOpenOrders(DefaultConfig.hedge_sym :> <<>>),
     MsgOpenOrders("ETHUSD.PERP" :> <<KolliderOrder(3, 13, DefaultLeverage, 250000000, 2, Ask)>>),
     MsgOpenOrders(DefaultConfig.hedge_sym :> <<KolliderOrder(1, 11, DefaultLeverage, 250000000, 2, Ask)>>),
     MsgPositions(DefaultConfig.hedge_sym :> KolliderPosition(50, 3)),
     MsgOpen(DefaultConfig.hedge_sym, KolliderOrder(4, 14, DefaultLeverage, 250000000, 2, Ask)),
     MsgOpen("ETHUSD.PERP", KolliderOrder(4, 14, DefaultLeverage, 250000000, 2, Ask)),
     MsgIndexValues(DefaultConfig.hedge_pair, 35000000),
     MsgIndexValues(".ETHUSD", 35000000)}
        \cup {MsgReceived(KolliderOrder(5, e, DefaultLeverage, 250000000, 5, Bid)) : e \in {7, 8, 9}}

InitEngine ==
    /\ overflow_checks \in BOOLEAN
    /\ AlgebraIdle
    /\ log = <<>>
    /\ replay = NotReplayed
    /\ ServiceOff
    /\ ledger \in EngineLedgers
    /\ outcome = NoOutcome

\* state.calculate_next_actions()
Calculate ==
    /\ outcome = NoOutcome
    /\ LET res == calculate_next_actions(ledger, 1)
       IN outcome' = [NoOutcome EXCEPT !.op = "calculate", !.kind = res.kind, !.state = res.state]
    /\ UNCHANGED <<overflow_checks, alg_vars, db_vars, sys_vars, ledger>>

\* state.apply_kollider_message(msg)
ApplyMessage(msg) ==
    /\ outcome = NoOutcome
    /\ LET res == apply_kollider_message(ledger, msg)
       IN outcome' = [NoOutcome EXCEPT !.op = "apply", !.msg = msg, !.kind = "Ok",
                                       !.changed = res.changed, !.state = res.state]
    /\ UNCHANGED <<overflow_checks, alg_vars, db_vars, sys_vars, ledger>>

\* order.required_margin()
Margin(order) ==
    /\ outcome = NoOutcome
    /\ outcome' = [NoOutcome EXCEPT !.op = "margin", !.order = order, !.kind = "Ok",
                                    !.state = ledger, !.margin = required_margin(order)]
    /\ UNCHANGED <<overflow_checks, alg_vars, db_vars, sys_vars, ledger>>

\* updates of the log
EngineUpdates ==
    {StateUpdate(7, body) :
        body \in {Snapshot(EmptyMap),
                  Snapshot("b" :> ChannelHedge(1, 3)),
                  Snapshot(("aboba" :> ChannelHedge(3, 2)) @@ ("b" :> ChannelHedge(1, 3))),
                  Htlc(HtlcUpdate("aboba", 5, 2)),
                  Htlc(HtlcUpdate("aboba", -40, 2))}}
\* streams of updates, earliest first, stamped in their order
StreamBodies ==
    {Snapshot("b" :> ChannelHedge(1, 3)), Snapshot(EmptyMap),
     Htlc(HtlcUpdate("b", 5, 2)), Htlc(HtlcUpdate("b", -5, 2))}
EngineStreams ==
    UNION {{[i \in 1 .. n |-> StateUpdate(i, bodies[i])] : bodies \in [1 .. n -> StreamBodies]} :
              n \in 0 .. MaxLog}

\* state.apply_update(update)
ApplyUpdate(update) ==
    /\ outcome = NoOutcome
    /\ LET res == apply_update(ledger, update)
       IN outcome' = [NoOutcome EXCEPT !.op = "update", !.update = update,
                                       !.kind = res.kind, !.state = res.state]
    /\ UNCHANGED <<overflow_checks, alg_vars, db_vars, sys_vars, ledger>>

\* State::collect(config, stream), which starts from State::new(config)
Collect(stream) ==
    /\ outcome = NoOutcome
    /\ ledger = StateNew(ledger.config, 0)
    /\ LET res == collect(ledger.config, stream, 0)
       IN outcome' = [NoOutcome EXCEPT !.op = "collect", !.stream = stream,
                                       !.kind = res.kind, !.state = res.state]
    /\ UNCHANGED <<overflow_checks, alg_vars, db_vars, sys_vars, ledger>>

NextEngine ==
    \/ \E update \in EngineUpdates : ApplyUpdate(update)
    \/ \E stream \in EngineStreams : Collect(stream)
    \/ Calculate
    \/ \E msg \in EngineFrames : ApplyMessage(msg)
    \/ \E order \in MarginOrders : Margin(order)

SpecEngine == InitEngine /\ [][NextEngine]_vars

(***************************************************************************)
(* The executor of main (main.rs): the worker's cycle on a ledger of the   *)
(* service, each scheduled action being translated into frames.            *)
(***************************************************************************)
\* USD per BTC: the tickers of the service and one above 2 * 10^8
OutboundTickers == Tickers \cup {300000000}
OutboundLedgers ==
    {[StateNew([DefaultConfig EXCEPT !.spread_bp = sp], 0) EXCEPT
          !.channels_hedge = ch, !.ticker = Some(t), !.opened_orders = Some(<<>>),
          !.opened_position = pos] :
        sp \in EngineSpreads, ch \in EngineChannelMaps, t \in OutboundTickers,
        pos \in EnginePositions}
OutboundCloseOrders == {CloseOrder(id, DefaultConfig.hedge_sym) : id \in {1, 2}}

InitOutbound ==
    /\ overflow_checks \in BOOLEAN
    /\ AlgebraIdle
    /\ log = <<>>
    /\ replay = NotReplayed
    /\ ServiceOff
    /\ ledger \in OutboundLedgers
    /\ outcome = NoOutcome

\* calculate_next_actions, then action.to_kollider_messages() for the
\* action it has scheduled
ExecuteScheduled ==
    /\ outcome = NoOutcome
    /\ LET res == calculate_next_actions(ledger, 1)
       IN /\ res.kind = "Ok"
          /\ res.state.scheduled_actions # <<>>
          /\ LET action == res.state.scheduled_actions[1]
                 msgs == to_kollider_messages(action)
             IN outcome' = [NoOutcome EXCEPT !.op = "execute", !.state = res.state,
                                             !.action = action, !.kind = msgs.kind,
                                             !.frames = msgs.frames]
    /\ UNCHANGED <<overflow_checks, alg_vars, db_vars, sys_vars, ledger>>

\* to_kollider_messages of a CloseOrder
ExecuteClose(action) ==
    /\ outcome = NoOutcome
    /\ LET msgs == to_kollider_messages(action)
       IN outcome' = [NoOutcome EXCEPT !.op = "execute", !.state = ledger,
                                       !.action = action, !.kind = msgs.kind,
                                       !.frames = msgs.frames]
    /\ UNCHANGED <<overflow_checks, alg_vars, db_vars, sys_vars, ledger>>

NextOutbound ==
    \/ ExecuteScheduled
    \/ \E action \in OutboundCloseOrders : ExecuteClose(action)

SpecOutbound == InitOutbound /\ [][NextOutbound]_vars

(***************************************************************************)
(* The algebra on its own: inputs drawn from the i64 range, one application *)
(***************************************************************************)
AlgValues ==
    {x \in I64 : \/ -AlgSpan <= x /\ x <= AlgSpan
                 \/ x < I64Min + AlgSpan
                 \/ x > I64Max - AlgSpan}

InitAlgebra ==
    /\ overflow_checks \in BOOLEAN
    /\ hedge \in [sats : AlgValues, rate : AlgValues]
    /\ upd \in [sats : AlgValues, rate : AlgValues]
    /\ new_hedge = NoResult
    /\ log = <<>>
    /\ replay = NotReplayed
    /\ ServiceOff
    /\ EngineIdle

\* let new_hedge = hedge.with_htlc(upd)
Combine ==
    /\ new_hedge = NoResult
    /\ new_hedge' = with_htlc(hedge, upd)
    /\ UNCHANGED <<overflow_checks, hedge, upd>>
    /\ UNCHANGED db_vars
    /\ UNCHANGED <<sys_vars, eng_vars>>

NextAlgebra == Combine

SpecAlgebra == InitAlgebra /\ [][NextAlgebra]_vars

(***************************************************************************)
(* The log and its replay on their own: rows are inserted as the tests of   *)
(* queries.rs insert them, then the state is reconstructed                  *)
(***************************************************************************)
ReplayChannels == {"aboba", "b"}
ReplayBodies ==
    {Htlc(HtlcUpdate(c, s, r)) : c \in ReplayChannels, s \in {1, 5, -5}, r \in {2, 3}}
    \cup {Snapshot(m) : m \in {EmptyMap,
                               "aboba" :> ChannelHedge(3, 2),
                               ("aboba" :> ChannelHedge(3, 2)) @@ ("b" :> ChannelHedge(1, 3))}}

InitReplay ==
    /\ overflow_checks \in BOOLEAN
    /\ AlgebraIdle
    /\ EngineIdle
    /\ log = <<>>
    /\ replay = NotReplayed
    /\ ServiceOff

\* insert_update(pool, body), the insertion succeeding
InsertUpdate(body) ==
    /\ replay = NotReplayed
    /\ Len(log) < MaxLog
    /\ log' = insert_update(log, body)
    /\ UNCHANGED <<overflow_checks, replay>>
    /\ UNCHANGED alg_vars
    /\ UNCHANGED <<sys_vars, eng_vars>>

\* query_state(pool, config) at boot
QueryState ==
    /\ replay = NotReplayed
    /\ replay' = query_state(log, DefaultConfig, Len(log) + 1)
    /\ UNCHANGED <<overflow_checks, log>>
    /\ UNCHANGED alg_vars
    /\ UNCHANGED <<sys_vars, eng_vars>>

NextReplay ==
    \/ \E body \in ReplayBodies : InsertUpdate(body)
    \/ QueryState

SpecReplay == InitReplay /\ [][NextReplay]_vars

(***************************************************************************)
(* Claims about the harness of test_api_hedge, checked under FairSpecE2E   *)
(***************************************************************************)
PostSucceeded == http[1].resp = ReplyOk
PostedSats == http[1].update.body.htlc.sats
\* sats per USD at the harness' ticker, and the gap of one USD
E2EPrice == (2 * 100000000 + Unwrap(state.ticker)) \div (2 * Unwrap(state.ticker))
E2EGap == E2EPrice
\* the request was accepted and lifts the capacity (the posted sats: the
\* ledger was empty) above pos_short + gap, pos_short being 0
Raised == PostSucceeded /\ PostedSats > 0 + E2EGap
\* round(current_price * (1 + 0.01 * 0.1))
E2EOrderPrice == (E2EPrice * 1001 + 500) \div 1000
OneOrderAtMost ==
    /\ Raised => Len(submitted) <= 1
    /\ \A i \in 1 .. Len(submitted) :
          Raised => /\ submitted[i].type = "OpenOrder"
                    /\ submitted[i].order.sats = PostedSats - 0
                    /\ submitted[i].order.side = "Bid"
                    /\ submitted[i].order.price = E2EOrderPrice
    /\ current_price_of(35000) = 2857
    /\ short_price(current_price_of(35000), DefaultConfig.spread_bp) = 2860

C3_SatsNonNegative ==
    \A c \in DOMAIN state.channels_hedge : state.channels_hedge[c].sats >= 0

\* C4: in every reachable ledger state every entry of channels_hedge with
\* sats > 0 has rate > 0, and a rate of 0 occurs only together with sats = 0
C4_RatePositive ==
    \A c \in DOMAIN state.channels_hedge :
        /\ state.channels_hedge[c].sats > 0 => state.channels_hedge[c].rate > 0
        /\ state.channels_hedge[c].rate = 0 => state.channels_hedge[c].sats = 0

\* the worker passes from the head of its loop through calculate_next_actions
WorkerCalculates == worker.pc = "top" /\ worker'.pc # "top"
ReportsMissing(st) == ~IsSome(st.opened_orders) \/ ~IsSome(st.ticker)

WorkerInCycle == worker.pc = "exec"
\* the fields of the ledger that HTLC updates and exchange frames write
FedFields(st) ==
    <<st.channels_hedge, st.last_changed, st.ticker, st.balance, st.opened_orders,
      st.opened_position>>

\* C19: a worker cycle is atomic with respect to the other tasks: between
\* calculate_next_actions and the clearing of scheduled_actions, the
\* submission of an action included, the worker holds the lock and no HTLC
\* update and no exchange frame is applied to the ledger
C19_CycleAtomic ==
    /\ [](WorkerInCycle => lock = "worker" /\ http[1].pc # "applied")
    /\ [][WorkerInCycle =>
             /\ FedFields(state') = FedFields(state)
             /\ log' = log
             /\ (state' # state => worker' # worker)]_vars

C19_Witness ==
    /\ WorkerInCycle
    /\ worker.i = 1
    /\ Len(worker.actions) = 1
    /\ http[1].pc = "locking"
    /\ lock = "worker"

WorkerSubmitting == worker.pc = "exec" /\ worker.i <= Len(worker.actions) /\ worker' # worker

\* C20: every action the worker submits is finalized whether the submission
\* succeeded or failed: afterwards the OpenOrder is in opening_orders under
\* its ext_id; on a failure the worker terminates and submits none of the
\* remaining scheduled actions
C20_FinalizedEitherWay ==
    /\ [][WorkerSubmitting =>
             LET a == worker.actions[worker.i]
             IN /\ a.order.ext_id \in DOMAIN state'.opening_orders
                /\ state'.opening_orders[a.order.ext_id] = a.order
                /\ \/ submitted' = Append(submitted, a) /\ worker'.pc = "exec"
                   \/ submitted' = submitted /\ worker'.pc = "failed"]_vars
    /\ [][worker.pc = "failed" => worker' = worker /\ submitted' = submitted]_vars

C20_Witness ==
    /\ worker.pc = "failed"
    /\ submitted = <<>>
    /\ DOMAIN state.opening_orders = {1}
    /\ state.opening_orders[1].side = "Bid"
    /\ lock = "free"

HandlerStep(h) == http'[h] # http[h]
HandlerReplies(h) == http[h].pc # "idle" /\ http'[h].pc = "idle"

\* C21: a POST /hedge/htlc that returns success has taken the ledger lock
\* once and held it until the reply: under that hold it applied its one Htlc
\* update to the ledger, then appended one row with the update's body to the
\* log, then stored one notification for the worker, and nobody else touched
\* the ledger or the log in between; a request that returns an error stores
\* no notification and appends nothing
C21_SuccessfulPost ==
    /\ [](\A h \in Handlers : http[h].pc = "applied" => lock = "http")
    /\ [][\A h \in Handlers :
            /\ (HandlerStep(h) /\ http'[h].pc = "applied") =>
                  /\ http[h].pc = "locking" /\ lock = "free" /\ lock' = "http"
                  /\ state_with_htlc(state, http[h].update.body.htlc).kind = "Ok"
                  /\ state'.channels_hedge =
                        state_with_htlc(state, http[h].update.body.htlc).state.channels_hedge
                  /\ log' = log /\ permit' = permit
            /\ (~HandlerStep(h) /\ http[h].pc = "applied") =>
                  state' = state /\ log' = log /\ lock' = lock
            /\ (HandlerReplies(h) /\ http'[h].resp = ReplyOk) =>
                  /\ http[h].pc = "applied" /\ lock' = "free"
                  /\ state' = state
                  /\ Len(log') = Len(log) + 1
                  /\ SubSeq(log', 1, Len(log)) = log
                  /\ log'[Len(log')].body = http[h].update.body
                  /\ permit'
            /\ (HandlerReplies(h) /\ http'[h].resp # ReplyOk) =>
                  /\ log' = log /\ permit' = permit /\ lock' = "free"
            /\ (HandlerStep(h) /\ http'[h].pc = "locking") =>
                  UNCHANGED <<state, log, permit, lock>>]_vars

C21_Witness ==
    /\ http[1].pc = "idle"
    /\ http[1].resp = ReplyOk
    /\ Len(log) = 1
    /\ log[1].body = http[1].update.body
    /\ permit
    /\ lock = "free"

AlgebraRejects(h) ==
    /\ http[h].pc = "locking"
    /\ HandlerStep(h)
    /\ state_with_htlc(state, http[h].update.body.htlc).kind \in HtlcUpdateErr

\* C22: when the rate algebra refuses the HTLC of a POST /hedge/htlc, the
\* reply is 400 STATE_UPDATE_ERROR, every field of the ledger is as it was
\* before the request, the log has no new row, the worker is not notified
\* and the lock is free again
C22_RejectedHtlcHasNoEffect ==
    [][\A h \in Handlers :
          AlgebraRejects(h) =>
             /\ http'[h].pc = "idle"
             /\ http'[h].resp = Reply(400, "STATE_UPDATE_ERROR")
             /\ state' = state
             /\ log' = log
             /\ permit' = permit
             /\ lock' = "free"]_vars

C22_Witness ==
    /\ http[1].pc = "idle"
    /\ http[1].resp = Reply(400, "STATE_UPDATE_ERROR")
    /\ http[1].update.body.htlc.channel_id \in DOMAIN state.channels_hedge
    /\ state.last_changed < http[1].update.created
    /\ Len(log) = 1

\* the worker evaluates calculate_next_actions and goes through its actions
WorkerCycles == worker.pc = "exec"
\* the worker returned Err: main aborts the other tasks and starts all anew
WorkerReturnedErr == worker.pc = "failed"

\* C23: no wake-up is lost: whenever a notification is stored for the worker
\* (whether it waits, is about to take the lock or has not waited yet), a
\* cycle of the worker follows in which calculate_next_actions sees the
\* ledger with the notifying change, unless the worker has returned an error
C23_NoLostWakeup == permit ~> (WorkerCycles \/ WorkerReturnedErr)

\* the same, for a worker that has not died of a panic
C23_WakeupUnlessPanicked == permit ~> (WorkerCycles \/ WorkerReturnedErr \/ worker.pc = "panicked")

(***************************************************************************)
(* Claims about the supervised service, checked under SpecSupervised       *)
(***************************************************************************)
SessionFailed == sup.ws = "failed"
WorkerFailed == worker.pc \in {"failed", "ended"}
ServerFailed == sup.api = "failed"
\* generation g + 1 of the three tasks has been started
Restarted(g) == sup.generation = g + 1 /\ sup.main = "serving"
\* main returned because the database could not be reached or replayed
BootFailed == sup.main = "exited" /\ sup.api # "failed"
OthersAborted ==
    /\ SessionFailed => sup.abort_exe /\ sup.abort_api
    /\ worker.pc = "ended" => sup.abort_ws /\ sup.abort_api

\* C24: whichever of the three tasks (exchange session, action worker, HTTP
\* server) terminates with an error, the handles of the other two are
\* aborted and, after the backoff, a new generation of all three is started
\* on the ledger replayed from the log (as long as the log can be read)
C24_AnyErrorRestartsAll ==
    /\ \A g \in 1 .. (MaxGenerations - 1) :
          (sup.generation = g /\ (SessionFailed \/ WorkerFailed \/ ServerFailed))
              ~> (Restarted(g) \/ BootFailed)
    /\ [](OthersAborted)
    /\ [][sup'.generation # sup.generation =>
             /\ StateOk(state') = query_state(log, DefaultConfig, requests)
             /\ worker'.pc = "auth" /\ sup'.ws = "running" /\ sup'.api = "starting"]_vars

\* the same for the session and the worker only, the database being there
C24_SessionOrWorkerErrorRestartsAll ==
    /\ \A g \in 1 .. (MaxGenerations - 1) :
          (sup.generation = g /\ (SessionFailed \/ WorkerFailed))
              ~> (Restarted(g) \/ BootFailed)
    /\ [](OthersAborted)
    /\ [][sup'.generation # sup.generation =>
             /\ StateOk(state') = query_state(log, DefaultConfig, requests)
             /\ worker'.pc = "auth" /\ sup'.ws = "running" /\ sup'.api = "starting"]_vars

(***************************************************************************)
(* Claims about GET /stats, checked under SpecStats                        *)
(***************************************************************************)
StatsAsked == outcome.op = "stats"

\* C25: GET /stats answers on every ledger the write path can build, with
\* channels_usd = channels_sats / avg_price when the average rate is
\* positive and channels_usd = 0 otherwise, ledgers holding a channel of
\* rate 0 or of 0 sats included
C25_StatsAlwaysAnswers ==
    StatsAsked =>
       /\ outcome.stats.kind = "Ok"
       /\ \/ outcome.stats.channels_usd = Fraction(0, 1)
          \/ /\ outcome.stats.channels_usd.num = outcome.stats.channels_sats
             /\ outcome.stats.channels_usd.den > 0

(***************************************************************************)
(* Claims about the updates of the ledger, checked under SpecEngine        *)
(***************************************************************************)
UpdateApplied == outcome.op = "update"
SnapshotApplied == UpdateApplied /\ outcome.update.body.tag = "snapshot"
Collected == outcome.op = "collect"
\* the ledger after the first k updates of the stream, each applied to the
\* ledger the one before it left, from State::new; the first error stays
RECURSIVE AfterUpdates(_, _, _)
AfterUpdates(config, stream, k) ==
    IF k = 0 THEN StateOk(StateNew(config, 0))
    ELSE LET before == AfterUpdates(config, stream, k - 1)
         IN IF before.kind = "Ok" THEN apply_update(before.state, stream[k]) ELSE before

\* C27: a Snapshot update succeeds, leaves channels_hedge equal to the
\* snapshot's map (nothing of the old map is kept), sets last_changed to the
\* update's time and changes no other field; State::collect of a stream is
\* the ledger obtained by applying its updates one after the other from the
\* new ledger, or the error of the first update that fails
C27_SnapshotReplaces ==
    /\ SnapshotApplied =>
          /\ outcome.kind = "Ok"
          /\ outcome.state.channels_hedge = outcome.update.body.channels_hedge
          /\ outcome.state.last_changed = outcome.update.created
          /\ \A f \in DOMAIN ledger \ {"channels_hedge", "last_changed"} :
                outcome.state[f] = ledger[f]
    /\ Collected =>
          LET expected == AfterUpdates(ledger.config, outcome.stream, Len(outcome.stream))
          IN /\ outcome.kind = expected.kind
             /\ outcome.kind = "Ok" => outcome.state = expected.state

C27_Witness ==
    /\ SnapshotApplied
    /\ DOMAIN ledger.channels_hedge = {"aboba"}
    /\ DOMAIN outcome.update.body.channels_hedge = {"b"}
    /\ DOMAIN outcome.state.channels_hedge = {"b"}
    /\ IsSome(ledger.ticker)
    /\ ledger.opening_orders # EmptyMap

(***************************************************************************)
(* Claims about the frames sent to the exchange, checked under SpecOutbound *)
(***************************************************************************)
Executed == outcome.op = "execute"
OtherSide(side) == IF side = "Bid" THEN "Ask" ELSE "Bid"

\* C26: every OpenOrder the worker submits is translated into exactly one
\* Order frame, with ext_order_id = ext_id, the other side, the same symbol
\* and leverage, quantity = ceil(sats / price) and price = 10 * 10^8 / price
\* rounded down; every CloseOrder into exactly one CancelOrder with its
\* order_id and symbol
C26_OutboundTranslation ==
    Executed =>
       /\ outcome.kind = "Ok"
       /\ Len(outcome.frames) = 1
       /\ LET f == outcome.frames[1]
              a == outcome.action
          IN IF a.type = "OpenOrder"
             THEN /\ f.type = "Order"
                  /\ f.ext_order_id = a.order.ext_id
                  /\ f.side = OtherSide(a.order.side)
                  /\ f.symbol = a.order.symbol
                  /\ f.leverage = a.order.leverage
                  /\ f.quantity * a.order.price >= a.order.sats
                  /\ f.quantity = 0 \/ (f.quantity - 1) * a.order.price < a.order.sats
                  /\ f.price * a.order.price <= 10 * SatsPerBtc
                  /\ (f.price + 1) * a.order.price > 10 * SatsPerBtc
             ELSE /\ f.type = "CancelOrder"
                  /\ f.order_id = a.order_id
                  /\ f.symbol = a.symbol

\* the same for the orders with a price of 1 sat per USD or more
C26_TranslationOfPricedOrders ==
    (Executed /\ (outcome.action.type = "OpenOrder" => outcome.action.order.price >= 1)) =>
       /\ outcome.kind = "Ok"
       /\ Len(outcome.frames) = 1
       /\ outcome.action.type = "OpenOrder" =>
             /\ outcome.frames[1].side = OtherSide(outcome.action.order.side)
             /\ outcome.frames[1].quantity * outcome.action.order.price >= outcome.action.order.sats
             /\ outcome.frames[1].price * outcome.action.order.price <= 10 * SatsPerBtc

(***************************************************************************)
(* Claims about the service at the limits, checked under SpecLimits        *)
(***************************************************************************)
\* C28: neither assertion of the decision engine fails in a cycle of the
\* worker, on any ledger the HTLC updates, the frames of the exchange and
\* the worker's cycles lead to: pos_short <= hcap when the short rule fires
\* and hcap <= pos_long when the unwind rule fires
C28_AssertionsHold ==
    [][WorkerCalculates =>
          calculate_next_actions(state, next_id).kind # "AssertionFailed"]_vars

(***************************************************************************)
(* Claims about the life of an order, checked under SpecLife               *)
(***************************************************************************)
\* the three sums of one side: Bid is the side of a short hedge
SideScheduled(st, side) == IF side = Bid THEN scheduled_shorts(st) ELSE scheduled_longs(st)
SideOpening(st, side) == IF side = Bid THEN opening_shorts(st) ELSE opening_longs(st)
SideOpened(st, side) ==
    LET sum == IF side = Bid THEN short_orders(st) ELSE long_orders(st)
    IN IF IsSome(sum) THEN Unwrap(sum) ELSE 0

\* the ledger without its i-th scheduled action / without the order e in flight
WithoutScheduled(st, i) ==
    [st EXCEPT !.scheduled_actions =
        SubSeq(st.scheduled_actions, 1, i - 1)
            \o SubSeq(st.scheduled_actions, i + 1, Len(st.scheduled_actions))]
WithoutOpening(st, e) == [st EXCEPT !.opening_orders = Remove(st.opening_orders, e)]

\* every scheduled OpenOrder counts with its sats on its own side only
CountedWhileScheduled ==
    \A i \in 1 .. Len(state.scheduled_actions) :
        LET a == state.scheduled_actions[i]
            rest == WithoutScheduled(state, i)
        IN a.type = "OpenOrder" =>
              /\ SideScheduled(state, a.order.side) = SideScheduled(rest, a.order.side) + a.order.sats
              /\ SideScheduled(state, inverse(a.order.side)) = SideScheduled(rest, inverse(a.order.side))

\* every order in flight counts with its sats on its own side only
CountedWhileOpening ==
    \A e \in DOMAIN state.opening_orders :
        LET o == state.opening_orders[e]
            rest == WithoutOpening(state, e)
        IN /\ SideOpening(state, o.side) = SideOpening(rest, o.side) + o.sats
           /\ SideOpening(state, inverse(o.side)) = SideOpening(rest, inverse(o.side))

\* the worker hands a scheduled order to opening_orders as it is
WorkerFinalizes == worker.pc = "exec" /\ worker.i <= Len(worker.actions) /\ worker' # worker
SameSideInFlight ==
    WorkerFinalizes =>
        LET a == worker.actions[worker.i]
        IN a.type = "OpenOrder" =>
              /\ a.order.ext_id \in DOMAIN state'.opening_orders
              /\ state'.opening_orders[a.order.ext_id] = a.order
              /\ \E i \in 1 .. Len(state.scheduled_actions) : state.scheduled_actions[i] = a

\* an acknowledged order counts with its margin on the side of its intent only
Acknowledged(e) == e \in DOMAIN state.opening_orders /\ e \notin DOMAIN state'.opening_orders
CountedOnceOpened ==
    \A e \in DOMAIN state.opening_orders :
        Acknowledged(e) =>
            LET side == state.opening_orders[e].side
                orders == Unwrap(state'.opened_orders)
                o == orders[Len(orders)]
            IN /\ IsSome(state'.opened_orders)
               /\ o.ext_id = e
               /\ SideOpened(state', side) = SideOpened(state, side) + required_margin(o)
               /\ SideOpened(state', inverse(side)) = SideOpened(state, inverse(side))
               /\ SideOpening(state', inverse(side)) = SideOpening(state, inverse(side))
               /\ SideScheduled(state', inverse(side)) = SideScheduled(state, inverse(side))

\* C29: side accounting is consistent through the life of an order: an
\* OpenOrder scheduled with side Bid counts in scheduled_shorts while it is
\* scheduled, in opening_shorts while it is in opening_orders and in
\* short_orders once its Received frame arrived, and at no stage in
\* scheduled_longs, opening_longs or long_orders; symmetrically for Ask
C29_SideAccounting ==
    /\ [](CountedWhileScheduled /\ CountedWhileOpening)
    /\ [][SameSideInFlight /\ CountedOnceOpened]_vars

\* both an order of a short hedge and an order of an unwind were
\* acknowledged, each with a margin that counts
C29_Witness ==
    /\ IsSome(state.opened_orders)
    /\ \E i, j \in 1 .. Len(Unwrap(state.opened_orders)) :
          LET a == Unwrap(state.opened_orders)[i]
              b == Unwrap(state.opened_orders)[j]
          IN /\ a.side = Ask /\ b.side = Bid
             /\ required_margin(a) > 0 /\ required_margin(b) > 0
             /\ \E k, l \in 1 .. Len(submitted) :
                   /\ submitted[k].order.ext_id = a.ext_id /\ submitted[k].order.side = Bid
                   /\ submitted[l].order.ext_id = b.ext_id /\ submitted[l].order.side = Ask
    /\ Unwrap(short_orders(state)) > 0
    /\ Unwrap(long_orders(state)) > 0

\* the worker hands an action to the executor, which accepts it
Submits == Len(submitted') = Len(submitted) + 1
Submission == submitted'[Len(submitted')]

\* C33: the worker submits no OpenOrder while the position on the exchange
\* is unknown (opened_position unset), whatever the order in which the
\* IndexValues, OpenOrders and Positions frames arrive
C33_NoOrderBeforePosition ==
    [][Submits /\ Submission.type = "OpenOrder" => IsSome(state.opened_position)]_vars

(***************************************************************************)
(* Claims about acknowledged orders, checked under SpecAcks                *)
(***************************************************************************)
ScheduledIds(st) ==
    {st.scheduled_actions[i].order.ext_id :
        i \in {j \in 1 .. Len(st.scheduled_actions) : st.scheduled_actions[j].type = "OpenOrder"}}
OpenedIds(st) ==
    IF IsSome(st.opened_orders)
    THEN {Unwrap(st.opened_orders)[i].ext_id : i \in 1 .. Len(Unwrap(st.opened_orders))}
    ELSE {}
\* the ext_id is held once, by one of the three collections
HeldOnce(st, e) ==
    /\ ~(e \in ScheduledIds(st) /\ e \in DOMAIN st.opening_orders)
    /\ ~(e \in ScheduledIds(st) /\ e \in OpenedIds(st))
    /\ ~(e \in DOMAIN st.opening_orders /\ e \in OpenedIds(st))
    /\ Copies(st, e) <= 1

\* C34: no order is counted twice: in every state of the ledger that another
\* task can see (the worker is not in the middle of a cycle) an ext_id is in
\* at most one of scheduled_actions, opening_orders and opened_orders, and
\* at most once in opened_orders, whatever the order of the Received and
\* Open frames and also after a submission that failed
C34_NoOrderTwice ==
    lock # "worker" => \A e \in 1 .. MaxOrders : HeldOnce(state, e)

\* an order the worker submitted has been acknowledged by a Received frame
\* that repeats what was sent, and opened_orders still holds it
AcknowledgedAsSent ==
    \E i \in SentOrders :
        /\ submitted[i].order.ext_id \notin DOMAIN state.opening_orders
        /\ submitted[i].order.ext_id \in OpenedIds(state)

\* C35: with the capacity, the ticker and the position fixed, once an
\* OpenOrder that covers the gap was submitted and acknowledged by a
\* Received frame with the price, quantity and leverage that were sent, the
\* worker submits no further OpenOrder, whatever hedge_leverage is
C35_NoOrderAfterAck ==
    [][Submits /\ Submission.type = "OpenOrder" => ~AcknowledgedAsSent]_vars

\* C38: scheduled_actions is empty in every state in which the worker does
\* not hold the lock, also after a cycle in which a submission failed
C38_NothingScheduledOutsideCycle ==
    lock # "worker" => state.scheduled_actions = <<>>

\* the same as long as no submission has failed
C38_NothingScheduledUnlessFailed ==
    (lock # "worker" /\ worker.pc # "failed") => state.scheduled_actions = <<>>

(***************************************************************************)
(* Claims about the ledger and its log, checked under SpecLedger           *)
(***************************************************************************)
\* query_state(&pool, config) on the log as it is
LogReplay == query_state(log, DefaultConfig, 0)

\* C36: the log the write path produces can always be replayed: for every
\* log the service reaches, also when appends failed after the update had
\* been applied in memory, the replay at boot folds every entry without a
\* StateUpdateErr
C36_LogReplayable ==
    LogReplay.kind \notin HtlcUpdateErr

\* C37: the ledger and the log agree: whenever no handler of POST
\* /hedge/htlc holds the lock, the replay of the log gives the channels_hedge
\* in memory; a request answered with SERVER_DATABASE_ERROR leaves
\* channels_hedge as it was
C37_LedgerIsLog ==
    lock # "http" =>
        /\ LogReplay.kind = "Ok"
        /\ LogReplay.state.channels_hedge = state.channels_hedge

(***************************************************************************)
(* Claims about concurrent requests, checked under SpecWriters             *)
(***************************************************************************)
InFlight == {h \in Handlers : http[h].pc # "idle"}
\* every request answered so far was answered with success
AllSucceeded == Len(log) + Cardinality(InFlight) = requests
\* no request is between its apply_update and its insert_update
NoneApplied == \A h \in Handlers : http[h].pc # "applied"
\* the log folded in the order of its appends
Folded == query_state(log, DefaultConfig, 0)
\* handler h appends its entry to the log
Appends(h) == http[h].pc = "applied" /\ http'[h].resp = ReplyOk /\ http'[h].pc = "idle"

\* C30: for every interleaving of concurrent POST /hedge/htlc requests that
\* all succeed, entries are appended to the log in the order in which they
\* were applied to the ledger in memory: the entry a request appends is the
\* update applied last, and the log folded in the order of its appends
\* gives the channels_hedge in memory
C30_LogOrderIsApplyOrder ==
    /\ [](AllSucceeded /\ NoneApplied =>
             /\ Folded.kind = "Ok"
             /\ Folded.state.channels_hedge = state.channels_hedge)
    /\ [][\A h \in Handlers :
             Appends(h) =>
                /\ log' = Append(log, StateUpdate(Len(log) + 1, http[h].update.body))
                /\ state.last_changed = http[h].update.created
                /\ \A g \in Handlers \ {h} : http[g].pc # "applied"]_vars

\* two requests with different HTLCs both succeeded, the one received
\* second applied first and logged first
C30_Witness ==
    /\ Len(log) = 2
    /\ http[1].resp = ReplyOk /\ http[2].resp = ReplyOk
    /\ NoneApplied /\ InFlight = {}
    /\ http[1].update.created = 2 /\ http[2].update.created = 1
    /\ log[1].body = http[1].update.body
    /\ log[2].body = http[2].update.body
    /\ log[1].body.htlc.rate # log[2].body.htlc.rate
    /\ state.last_changed = 1

(***************************************************************************)
(* Claims about the progress of the worker, checked under FairSpecService  *)
(***************************************************************************)
\* calculate_next_actions would schedule an action on the ledger as it is
WouldSchedule ==
    LET res == calculate_next_actions(state, next_id)
    IN /\ res.kind = "Ok"
       /\ Len(res.state.scheduled_actions) > Len(state.scheduled_actions)
\* the worker's task is alive and may still create an order
WorkerRunning == worker.pc \in {"top", "exec", "wait"} /\ next_id <= MaxOrders
\* the ledger holds what the log holds: no insertion has failed
LogAgrees == LogReplay.kind = "Ok" /\ LogReplay.state.channels_hedge = state.channels_hedge
ActionDue == WouldSchedule /\ WorkerRunning /\ LogAgrees

\* C39: whenever calculate_next_actions would schedule an action and the
\* worker is running, the worker eventually schedules and submits it with no
\* further HTLC and no further frame, whatever the order in which the HTLC,
\* the IndexValues frame and the OpenOrders frame (with or without an entry
\* for the hedging symbol) arrived: an action does not stay due for ever
C39_DueActionSubmitted == ActionDue ~> ~ActionDue

\* the same when the worker was notified of the change, or has not waited yet
C39_DueActionSubmittedIfNotified ==
    (ActionDue /\ (permit \/ worker.pc # "wait")) ~> ~ActionDue

(***************************************************************************)
(* Claims about the exchange session, checked under FairSpecSession        *)
(***************************************************************************)
TransportEnded == sup.transport \in {"ended", "done"}
\* main has returned: the process has ended
MainExited == sup.main = "exited"

\* C31: whenever the transport task ends, with an error or because the
\* stream was closed, the session ends with an error, so that the worker and
\* the server are aborted and a new generation of the three tasks is
\* started (unless main ends with an error of its own): the server is never
\* left accepting HTLC writes with no session
C31_TransportEndRestarts ==
    /\ [](sup.ws # "ended")
    /\ \A g \in 1 .. (MaxGenerations - 1) :
          (sup.generation = g /\ TransportEnded) ~> (Restarted(g) \/ MainExited)

\* the same when the listener is polled only after the abort was set
C31_RestartsUnlessStreamEndSeenFirst ==
    \A g \in 1 .. (MaxGenerations - 1) :
        (sup.generation = g /\ TransportEnded /\ sup.abort_listen /\ sup.ws # "ended")
            ~> (Restarted(g) \/ MainExited)

\* the frames the worker writes to the outbound channel
OrderFrames == {"Order", "CancelOrder"}
\* the listener has handled the Authenticate frame in this generation: the
\* handler is the only place that sends Subscribe
AuthenticateHandled == \E j \in 1 .. Len(sup.outbox) : sup.outbox[j] = "Subscribe"
\* the worker is inside state_action_worker or has left it with an error
WorkerEntered == worker.pc \in {"top", "exec", "wait", "failed", "panicked"}

\* C40: in each generation the worker is inside state_action_worker, and an
\* order or cancel frame is on the outbound channel, only after the listener
\* of that generation has handled the Authenticate frame, and the first
\* frame on the outbound channel is the authentication message
C40_AuthenticateFirst ==
    /\ sup.outbox # <<>> => sup.outbox[1] = "Authenticate"
    /\ WorkerEntered => AuthenticateHandled
    /\ \A i \in 1 .. Len(sup.outbox) :
           sup.outbox[i] \in OrderFrames =>
               \E j \in 1 .. (i - 1) : sup.outbox[j] = "Subscribe"

\* an order has been written in the second generation, after the frames of
\* the Authenticate handler
C40_Witness ==
    /\ sup.generation = 2
    /\ Len(sup.outbox) >= 5
    /\ SubSeq(sup.outbox, 1, 5) =
           <<"Authenticate", "Subscribe", "FetchOpenOrders", "FetchPositions", "Order">>

(***************************************************************************)
(* Claims about the functions of State, checked under SpecEngine           *)
(***************************************************************************)
MarginAsked == outcome.op = "margin"
\* ceil(num / den) for positive integers
CeilOf(num, den) == (num + den - 1) \div den

Calculated == outcome.op = "calculate"
ReportsPresent == IsSome(ledger.opened_orders) /\ IsSome(ledger.ticker)
\* the quantities of the decision rule, as mathematical integers
RuleHcap == SumMap([c \in DOMAIN ledger.channels_hedge |-> ledger.channels_hedge[c].sats])
RuleMargin(o) == CeilOf(o.quantity * 100000000, (o.price \div 1000) * o.leverage)
RuleMargins(side) ==
    LET oo == Unwrap(ledger.opened_orders)
    IN SumSeq([i \in 1 .. Len(oo) |-> IF oo[i].side = side THEN RuleMargin(oo[i]) ELSE 0])
RuleOpening(side) ==
    SumMap([k \in DOMAIN ledger.opening_orders |->
               IF ledger.opening_orders[k].side = side THEN ledger.opening_orders[k].sats ELSE 0])
RulePosition == IF IsSome(ledger.opened_position) THEN ledger.opened_position[1].entry_value ELSE 0
RulePosShort == RulePosition + RuleMargins("Ask") + 0 + RuleOpening("Bid")
RulePosLong == RulePosition - RuleMargins("Bid") - 0 - RuleOpening("Ask")
RulePrice == (2 * 100000000 + ledger.ticker[1]) \div (2 * ledger.ticker[1])
RuleGap == 1 * RulePrice
RuleShortFires == ReportsPresent /\ RuleHcap > RulePosShort + RuleGap
RuleUnwindFires == ReportsPresent /\ ~RuleShortFires /\ RuleHcap < RulePosLong - RuleGap
\* round(price * (1 + 0.01 * spread_percent)), spread in hundredths of a percent
RuleShortPrice == (2 * RulePrice * (10000 + ledger.config.spread_bp) + 10000) \div 20000
RuleLongPrice == (2 * RulePrice * (10000 - ledger.config.spread_bp) + 10000) \div 20000
Appended == SubSeq(outcome.state.scheduled_actions, Len(ledger.scheduled_actions) + 1,
                   Len(outcome.state.scheduled_actions))
KeptBefore == SubSeq(outcome.state.scheduled_actions, 1, Len(ledger.scheduled_actions))
                  = ledger.scheduled_actions

\* C13: short rule: whenever hcap > pos_short + gap one invocation of
\* calculate_next_actions appends exactly one OpenOrder with
\* sats = hcap - pos_short, side Bid, price
\* round(current_price * (1 + 0.01 * spread_percent)), symbol and leverage
\* taken from the config
C13_ShortRule ==
    Calculated /\ RuleShortFires =>
        /\ outcome.kind = "Ok"
        /\ KeptBefore
        /\ Len(Appended) = 1
        /\ Appended[1].type = "OpenOrder"
        /\ Appended[1].order.sats = RuleHcap - RulePosShort
        /\ Appended[1].order.side = "Bid"
        /\ Appended[1].order.price = RuleShortPrice
        /\ Appended[1].order.symbol = ledger.config.hedge_sym
        /\ Appended[1].order.leverage = ledger.config.hedge_leverage

\* C14: unwind rule: whenever the short rule does not fire and
\* hcap < pos_long - gap one invocation of calculate_next_actions appends
\* exactly one OpenOrder with sats = pos_long - hcap, side Ask, price
\* round(current_price * (1 - 0.01 * spread_percent))
C14_UnwindRule ==
    Calculated /\ RuleUnwindFires =>
        /\ outcome.kind = "Ok"
        /\ KeptBefore
        /\ Len(Appended) = 1
        /\ Appended[1].type = "OpenOrder"
        /\ Appended[1].order.sats = RulePosLong - RuleHcap
        /\ Appended[1].order.side = "Ask"
        /\ Appended[1].order.price = RuleLongPrice

MessageApplied == outcome.op = "apply"

\* C17: apply_kollider_message returns true if and only if the ledger after
\* the call differs from the ledger before it (an OpenOrders frame without
\* the hedging symbol, which turns opened_orders from unset into the empty
\* list, included)
C17_ChangedIffDiffers ==
    MessageApplied => (outcome.changed <=> outcome.state # ledger)

ReceivedApplied == MessageApplied /\ outcome.msg.type = "Received"
ReceivedKnown == ReceivedApplied /\ outcome.msg.order.ext_id \in DOMAIN ledger.opening_orders
OrdersBefore == IF ledger.opened_orders = <<>> THEN <<>> ELSE ledger.opened_orders[1]
OrdersAfter == outcome.state.opened_orders[1]

\* C18: on a Received frame whose ext_order_id is a key of opening_orders
\* that entry is removed and exactly one order with that ext_id is appended
\* to opened_orders, its side inverted from the opening intent; on a
\* Received frame with any other ext_order_id the ledger is unchanged and
\* false is returned
C18_ReceivedMovesOrder ==
    /\ ReceivedKnown =>
          LET e == outcome.msg.order.ext_id
              intent == ledger.opening_orders[e].side
          IN /\ outcome.changed
             /\ DOMAIN outcome.state.opening_orders = DOMAIN ledger.opening_orders \ {e}
             /\ \A k \in DOMAIN outcome.state.opening_orders :
                    outcome.state.opening_orders[k] = ledger.opening_orders[k]
             /\ outcome.state.opened_orders # <<>>
             /\ Len(OrdersAfter) = Len(OrdersBefore) + 1
             /\ SubSeq(OrdersAfter, 1, Len(OrdersBefore)) = OrdersBefore
             /\ OrdersAfter[Len(OrdersAfter)].ext_id = e
             /\ OrdersAfter[Len(OrdersAfter)].side = (IF intent = "Bid" THEN "Ask" ELSE "Bid")
             /\ OrdersAfter[Len(OrdersAfter)].id = outcome.msg.order.id
             /\ OrdersAfter[Len(OrdersAfter)].price = outcome.msg.order.price
             /\ OrdersAfter[Len(OrdersAfter)].quantity = outcome.msg.order.quantity
             /\ outcome.state.channels_hedge = ledger.channels_hedge
             /\ outcome.state.scheduled_actions = ledger.scheduled_actions
    /\ ReceivedApplied /\ ~ReceivedKnown =>
          outcome.state = ledger /\ ~outcome.changed

C18_Witness ==
    /\ ReceivedKnown
    /\ outcome.msg.order.ext_id = 7
    /\ DOMAIN ledger.opening_orders = {7, 8}
    /\ Len(OrdersBefore) = 2
    /\ OrdersAfter[3].side = "Ask"
    /\ OrdersAfter[3].ext_id = 7

(***************************************************************************)
(* Claims about replay, checked under SpecReplay                           *)
(***************************************************************************)
IsSnapshotAt(table, i) == table[i].body.tag = "snapshot"
\* index of the newest Snapshot row, 0 when there is none
NewestSnapshot(table) ==
    IF \E i \in 1 .. Len(table) : IsSnapshotAt(table, i)
    THEN CHOOSE i \in 1 .. Len(table) :
            /\ IsSnapshotAt(table, i)
            /\ \A j \in (i + 1) .. Len(table) : ~IsSnapshotAt(table, j)
    ELSE 0

\* the newest Snapshot's map (the empty map when there is none) with the rows
\* k+1 .. n applied in append order, stated from the last row backwards
RECURSIVE LaterApplied(_, _, _)
LaterApplied(table, k, n) ==
    IF n <= k
    THEN Ok(0, 0) @@ [map |-> IF k = 0 THEN EmptyMap ELSE table[k].body.channels_hedge]
    ELSE LET before == LaterApplied(table, k, n - 1)
             h == table[n].body.htlc
             c == h.channel_id
             one == IF c \in DOMAIN before.map THEN with_htlc(before.map[c], h)
                    ELSE Ok(h.sats, h.rate)
         IN IF before.kind # "Ok" THEN before
            ELSE IF one.kind # "Ok" THEN Err(one.kind) @@ [map |-> EmptyMap]
            ELSE Ok(0, 0) @@ [map |-> Insert(before.map, c, ChannelHedge(one.sats, one.rate))]

OlderDropped(table) ==
    IF NewestSnapshot(table) = 0 THEN table
    ELSE SubSeq(table, NewestSnapshot(table), Len(table))

Replayed == replay # NotReplayed

\* test_state_fold at the model's scale: a snapshot of 3 sats, then +1 and +5
TestFoldLog ==
    <<StateUpdate(1, Snapshot("aboba" :> ChannelHedge(3, 2))),
      StateUpdate(2, Htlc(HtlcUpdate("aboba", 1, 2))),
      StateUpdate(3, Htlc(HtlcUpdate("aboba", 5, 2)))>>

\* C2: boot replay reads the log newest-first up to the first Snapshot
\* inclusive and folds that prefix oldest-first: the result is the newest
\* Snapshot's map with every later Htlc applied in append order (or that
\* fold's failure), and the rows older than the newest Snapshot have no effect.
C2_ReplayFromNewestSnapshot ==
    Replayed =>
        LET expected == LaterApplied(log, NewestSnapshot(log), Len(log))
            shortened == query_state(OlderDropped(log), DefaultConfig, Len(log) + 1)
        IN /\ replay.kind = expected.kind
           /\ replay.kind = "Ok" => replay.state.channels_hedge = expected.map
           /\ Len(query_updates(log)) = Len(log) - NewestSnapshot(log) + (IF NewestSnapshot(log) = 0 THEN 0 ELSE 1)
           /\ replay.kind = shortened.kind
           /\ replay.kind = "Ok" => replay.state.channels_hedge = shortened.state.channels_hedge
           /\ log = TestFoldLog =>
                 replay = StateOk([StateNew(DefaultConfig, 4) EXCEPT
                                      !.channels_hedge = "aboba" :> ChannelHedge(9, 2),
                                      !.last_changed = 3])

\* a replay that succeeded over a log holding rows both before and after its newest Snapshot
C2_Witness ==
    /\ Replayed
    /\ replay.kind = "Ok"
    /\ NewestSnapshot(log) > 1
    /\ NewestSnapshot(log) < Len(log)
    /\ log[1].body.tag = "htlc"
    /\ replay.state.channels_hedge # log[NewestSnapshot(log)].body.channels_hedge

(***************************************************************************)
(* Claims about the rate algebra, checked under SpecAlgebra                *)
(***************************************************************************)
Combined == new_hedge # NoResult
\* the contract's quantities, in unbounded integers
ExactSats == hedge.sats + upd.sats
ExactW == hedge.sats * upd.rate + upd.sats * hedge.rate
ExactRate == TruncDiv(ExactSats * hedge.rate * upd.rate, ExactW)

\* exposures of opposite signs at positive rates
CrossSigns(h, u) == h.sats > 0 /\ 0 > u.sats /\ h.rate > 0 /\ u.rate > 0
AlgExposures == [sats : AlgValues, rate : AlgValues]

C5_InsufficientSatsIff ==
    Combined => ((new_hedge.kind = "InsufficientSatsBalance") <=> (ExactSats < 0))

\* C6: whenever combine succeeds the result sats is sats_h + sats_u and the
\* result rate is the integer quotient (sats' * rate_h * rate_u) / w.
C6_SuccessIsExact ==
    (Combined /\ new_hedge.kind = "Ok") =>
        /\ new_hedge.sats = ExactSats
        /\ ExactW # 0
        /\ new_hedge.rate = ExactRate

\* C7: same-rate merge: for r > 0 and s1 + s2 >= 0 (s1 + s2 = 0 included)
\* combine((s1, r), (s2, r)) succeeds and returns (s1 + s2, r).
C7_SameRateMerge ==
    (Combined /\ hedge.rate = upd.rate /\ hedge.rate > 0 /\ ExactSats >= 0) =>
        new_hedge = Ok(ExactSats, hedge.rate)

\* C8: zero-sats injection: for s > 0, r > 0, r0 > 0 both combine((0, r0), (s, r))
\* and combine((s, r), (0, r0)) succeed and return (s, r).
C8_ZeroSatsInjection ==
    /\ (Combined /\ hedge.sats = 0 /\ hedge.rate > 0 /\ upd.sats > 0 /\ upd.rate > 0) =>
            new_hedge = Ok(upd.sats, upd.rate)
    /\ (Combined /\ upd.sats = 0 /\ upd.rate > 0 /\ hedge.sats > 0 /\ hedge.rate > 0) =>
            new_hedge = Ok(hedge.sats, hedge.rate)

\* C9: with sats_h + sats_u >= 0, combine fails with InsufficientFiatBalance when
\* w <= 0 and the two sides are not both zero; when both sides are zero it does
\* not fail with InsufficientFiatBalance.
BothSidesZero == hedge.sats = 0 /\ upd.sats = 0
C9_InsufficientFiat ==
    (Combined /\ ExactSats >= 0) =>
        /\ (ExactW <= 0 /\ ~BothSidesZero) => new_hedge.kind = "InsufficientFiatBalance"
        /\ BothSidesZero => new_hedge.kind # "InsufficientFiatBalance"

\* C10: combine never wraps: a computed rate' outside the signed 64-bit range
\* gives RateOverflow, and a success returns exactly the wide-integer sats and
\* rate, both within the signed 64-bit range.
C10_NeverWraps ==
    (Combined /\ ExactSats >= 0 /\ ExactW > 0) =>
        /\ ExactRate \notin I64 => new_hedge.kind = "RateOverflow"
        /\ new_hedge.kind = "Ok" =>
                /\ new_hedge.sats = ExactSats /\ ExactSats \in I64
                /\ new_hedge.rate = ExactRate /\ ExactRate \in I64

=============================================================================
